---- MODULE Spec2Model ----
(***************************************************************************)
(* Shared-upperdir overlay snapshotter (plugins/snapshots/overlay).        *)
(*                                                                         *)
(* The model follows overlay.go and path_mapping.go: the snapshotter's     *)
(* operations are processes whose steps are the metadata transactions and  *)
(* the filesystem work the code does between them.  The metadata store     *)
(* (core/snapshots/storage) is outside the sources and is modelled by its  *)
(* contract.  Paths are records, a directory exists when its record is in  *)
(* fs.  Timestamps of path-mapping records are not part of this            *)
(* specification.                                                          *)
(***************************************************************************)
EXTENDS Integers, Sequences, FiniteSets, TLC

\* ------------------------------------------------------------------ bounds
\* ids the metadata store may hand out, per specification
MaxId == 2
MaxLayoutId == 2
MaxFaultId == 2
MaxChainId == 3
MaxConcId == 2
MaxUsageId == 2
MaxLabelId == 2
MaxMoveId == 3
MaxCollideId == 1

Procs == {1, 2}
Keys == {"base", "a", "b"}

\* ------------------------------------------------------------------ labels
LabelK8sNamespace == "containerd.io/snapshot/k8s-namespace"
LabelK8sPodName == "containerd.io/snapshot/k8s-pod-name"
LabelK8sContainerName == "containerd.io/snapshot/k8s-container-name"
LabelSharedDiskPath == "containerd.io/snapshot/shared-disk-path"
LabelUseSharedStorage == "containerd.io/snapshot/use-shared-storage"
LabelSnapshotUIDMapping == "containerd.io/snapshot/uidmapping"
LabelSnapshotGIDMapping == "containerd.io/snapshot/gidmapping"

\* o.root is <SharedStorageBase>/d/io.containerd.snapshotter.v1.overlayfs,
\* so filepath.Dir(filepath.Dir(o.root)) is SharedStorageBase
SharedStorageBase == "/s"
ExternalDisk == "/shared/nb"
\* the values of shared-disk-path: two disks and the empty string
SharedDisks == {ExternalDisk, SharedStorageBase, ""}

EmptyLabels == [k \in {} |-> ""]

SharedKeys == {LabelUseSharedStorage, LabelSharedDiskPath, LabelK8sNamespace,
               LabelK8sPodName, LabelK8sContainerName}

SharedLabels(disk) ==
    [k \in SharedKeys |->
        CASE k = LabelUseSharedStorage -> "true"
          [] k = LabelSharedDiskPath -> disk
          [] k = LabelK8sNamespace -> "default"
          [] k = LabelK8sPodName -> "nb-test-0"
          [] OTHER -> "pytorch"]

\* use-shared-storage is "true" but the pod name label is absent
IncompleteLabels ==
    [k \in SharedKeys \ {LabelK8sPodName} |-> SharedLabels(ExternalDisk)[k]]

GoodIDMap == "0:1000:65536"
BadIDMap == "garbage"

IDMapLabels(v) ==
    [k \in {LabelSnapshotUIDMapping, LabelSnapshotGIDMapping} |-> v]

\* the four labels getSharedPathBase reads
RequiredKeys == SharedKeys \ {LabelUseSharedStorage}

\* one required label is absent
MissingLabel(k) == [j \in SharedKeys \ {k} |-> SharedLabels(ExternalDisk)[j]]

\* one required label is present and empty
EmptyLabel(k) ==
    [j \in SharedKeys |-> IF j = k THEN "" ELSE SharedLabels(ExternalDisk)[j]]

\* use-shared-storage is set, but not to "true"
NotTrueLabels ==
    [j \in SharedKeys |->
        IF j = LabelUseSharedStorage THEN "True" ELSE SharedLabels(ExternalDisk)[j]]

LabelVariants ==
    {EmptyLabels, SharedLabels(ExternalDisk), NotTrueLabels}
    \cup {MissingLabel(k) : k \in RequiredKeys}
    \cup {EmptyLabel(k) : k \in RequiredKeys}

\* info.Labels[k]: the empty string when the key is absent
Label(labels, k) == IF k \in DOMAIN labels THEN labels[k] ELSE ""

LabelChoices ==
    {EmptyLabels, SharedLabels(ExternalDisk), SharedLabels(SharedStorageBase),
     IncompleteLabels, IDMapLabels(GoodIDMap), IDMapLabels(BadIDMap)}

\* ------------------------------------------------------------------- paths
\* names of entries under a snapshots root
IdName(id) == <<"id", id>>
TmpName(n) == <<"new-", n>>
\* the .containerd_layer_snapshots marker file of the short root
Sentinel == <<".containerd_layer_snapshots", 0>>

CanonRoot == "snapshots"
ShortRoot == "l"

LocalPath(root, name, sub) ==
    [root |-> root, disk |-> "", pod |-> 0, name |-> name, sub |-> sub]

SharedPath(disk, podHash, snapshotHash, sub) ==
    [root |-> "shared", disk |-> disk, pod |-> podHash,
     name |-> <<"hash", snapshotHash>>, sub |-> sub]

\* filepath.Join(p, sub) for a path that names a home or a shared base
Join(p, sub) == [p EXCEPT !.sub = sub]

NoPath == LocalPath("", <<"", 0>>, "")
OverlaySource == LocalPath("overlay", <<"", 0>>, "")

\* what a container keeps in an fs directory: one entry below it
DataSub == "fs/data"

\* os.RemoveAll(p): p and everything below it
Below(p, F) ==
    {d \in F : /\ d.root = p.root /\ d.disk = p.disk /\ d.pod = p.pod
               /\ d.name = p.name
               /\ \/ p.sub = ""
                  \/ d.sub = p.sub
                  \/ p.sub = "fs" /\ d.sub = DataSub}

RemoveAllTop(F, p) == F \ {p}

RemoveAll(F, p) == F \ Below(p, F)

\* os.MkdirAll(p): p and the home or base above it
MkdirAll(F, p) == F \cup {p, Join(p, "")}

SharedDirs(F) == {d \in F : d.root = "shared"}

\* fs.DiskUsage(path): what is stored below the directory
DiskUsage(F, path) == Cardinality(Below(path, F) \ {path})

\* -------------------------------------------------------------- identities
\* hashString(s)[:8]: a fixed-width digest of the input.  The model's inputs
\* are decimal ids and the pod identifier of the label set; the digest is
\* 16 bits wide here, the code keeps 32.
HashSpace == 2^16

hashString(n) == ((n % HashSpace) * 40503 + 1013) % HashSpace

\* fmt.Sprintf("%s/%s/%s", kubeNamespace, podName, containerName), as a number
PodIdentifier(labels) ==
    1001 + (IF Label(labels, LabelK8sPodName) = "nb-test-0" THEN 0 ELSE 1)
         + (IF Label(labels, LabelK8sNamespace) = "default" THEN 0 ELSE 2)
         + (IF Label(labels, LabelK8sContainerName) = "pytorch" THEN 0 ELSE 4)

\* -------------------------------------------------------------------- state
VARIABLES
    cfg,            \* snapshotter fields: shortBasePaths, asyncRemove, remapIDs
    meta,           \* metadata store: key -> snapshot record (committed view)
    nextId,         \* metadata store: next id of the id sequence
    wlock,          \* process holding the store's write transaction, 0 if none
    fs,             \* directories (and the marker file) that exist
    globalMappings, \* path_mapping.go globalMappings.Mappings
    mappingFiles,   \* <disk>/.path-mappings.json per shared disk
    pc,             \* per process: the call in progress and its locals
    prepared,       \* history: mounts returned by the latest Prepare of a key
    markerFailed,   \* history: ids whose local marker directory Mkdir failed
    env             \* the environment of the run: the system-call failures
                    \* that may happen and the size of the id sequence

vars == <<cfg, meta, nextId, wlock, fs, globalMappings, mappingFiles, pc,
          prepared, markerFailed, env>>

\* ----------------------------------------------------------- metadata store
NoSnap ==
    [id |-> 0, kind |-> "None", parent |-> "", labels |-> EmptyLabels,
     usage |-> 0]

IDMap(m) == {m[k].id : k \in Keys} \ {0}

RECURSIVE ParentChain(_, _)
ParentChain(m, key) ==
    IF key = "" THEN <<>>
    ELSE <<m[key].id>> \o ParentChain(m, m[key].parent)

\* storage.CreateSnapshot: the error it returns, "" if none
CreateSnapshotErr(m, kind, key, parent) ==
    IF m[key].id # 0 THEN "already exists"
    ELSE IF parent # "" /\ m[parent].id = 0 THEN "parent not found"
    ELSE IF parent # "" /\ m[parent].kind # "Committed"
         THEN "parent is not committed"
    ELSE ""

\* a store whose Remove never fails
StorageRemoveErrNone(m, key) == ""

\* storage.Remove: the error it returns, "" if none
StorageRemoveErr(m, key) ==
    IF m[key].id = 0 THEN "not found"
    ELSE IF \E c \in Keys : m[c].id # 0 /\ m[c].parent = key
         THEN "cannot remove snapshot with child"
    ELSE ""

\* storage.CommitActive: the error it returns, "" if none
CommitActiveErr(m, key, name) ==
    IF m[name].id # 0 THEN "already exists"
    ELSE IF m[key].id = 0 THEN "not found"
    ELSE IF m[key].kind # "Active" THEN "not active"
    ELSE ""

\* userns.IDMap Unmarshal and RootPair on the two mapping labels
IDMapParses(uidmapLabel, gidmapLabel) ==
    uidmapLabel = GoodIDMap /\ gidmapLabel = GoodIDMap

\* ------------------------------------------------------- path mapping index
MappingKey(podHash, snapshotHash) == <<podHash, snapshotHash>>

\* cleanupNonExistentMappings(basePath): drop every record whose directory
\* <basePath>/<pod_hash>/<snapshot_hash> does not exist
cleanupNonExistentMappingsAll(maps, F, basePath) == [k \in {} |-> maps[k]]

cleanupNonExistentMappings(maps, F, basePath) ==
    LET keep == {k \in DOMAIN maps :
                    SharedPath(basePath, maps[k].PodHash,
                               maps[k].SnapshotHash, "") \in F}
    IN [k \in keep |-> maps[k]]

KeyLess(a, b) == a[1] < b[1] \/ (a[1] = b[1] /\ a[2] < b[2])

RECURSIVE SortedKeys(_)
SortedKeys(S) ==
    IF S = {} THEN <<>>
    ELSE LET least == CHOOSE k \in S : \A o \in S \ {k} : KeyLess(k, o)
         IN <<least>> \o SortedKeys(S \ {least})

\* createSortedMappings and json.MarshalIndent: the entries go through a Go
\* map again, which encoding/json writes in the order of the map keys
MarshalMappings(maps) ==
    LET ks == SortedKeys(DOMAIN maps)
    IN [i \in 1..Len(ks) |-> maps[ks[i]]]

\* RegisterPathMapping followed by savePathMappings: the new index and file
RegisterPathMapping(maps, files, F, basePath, podHash, snapshotHash, namespace, podName, containerName, snapshotID) ==
    LET key == MappingKey(podHash, snapshotHash)
        rec == [PodHash |-> podHash, SnapshotHash |-> snapshotHash,
                Namespace |-> namespace, PodName |-> podName,
                ContainerName |-> containerName, SnapshotID |-> snapshotID]
        upserted == [k \in DOMAIN maps \cup {key} |->
                        IF k = key THEN rec ELSE maps[k]]
        kept == cleanupNonExistentMappings(upserted, F, basePath)
    IN [maps |-> kept,
        files |-> [files EXCEPT ![basePath] =
                      [present |-> TRUE, entries |-> MarshalMappings(kept)]]]

\* LookupPathMapping(podHash, snapshotHash): the record and whether there
\* is one
LookupPathMapping(maps, podHash, snapshotHash) ==
    LET key == MappingKey(podHash, snapshotHash)
    IN IF key \in DOMAIN maps THEN [ok |-> TRUE, mapping |-> <<maps[key]>>]
       ELSE [ok |-> FALSE, mapping |-> <<>>]

\* ----------------------------------------------------------- path resolver
isSharedSnapshot(labels) ==
    LabelUseSharedStorage \in DOMAIN labels /\ labels[LabelUseSharedStorage] = "true"

\* getSharedPathBase: its error, "" if none
getSharedPathBaseErrIdOnly(labels, id) ==
    IF id = 0 THEN "snapshot ID is required for shared storage path" ELSE ""

getSharedPathBaseErr(labels, id) ==
    IF ~ (SharedKeys \ {LabelUseSharedStorage} \subseteq DOMAIN labels)
    THEN "missing one or more required labels for shared storage path"
    ELSE IF id = 0 THEN "snapshot ID is required for shared storage path"
    ELSE ""

\* getSharedPathBase: the base path it returns when there is no error
getSharedPathBase(labels, id) ==
    SharedPath(Label(labels, LabelSharedDiskPath),
               hashString(PodIdentifier(labels)), hashString(id), "")

\* getSharedPathBase: its effect on the path mapping index and file
getSharedPathBaseReg(ms, F, labels, id) ==
    IF getSharedPathBaseErr(labels, id) # "" THEN ms
    ELSE RegisterPathMapping(ms.maps, ms.files, F,
                             Label(labels, LabelSharedDiskPath),
                             hashString(PodIdentifier(labels)), hashString(id),
                             Label(labels, LabelK8sNamespace),
                             Label(labels, LabelK8sPodName),
                             Label(labels, LabelK8sContainerName), id)

getSnapshotsRoot(c) == IF c.shortBasePaths THEN ShortRoot ELSE CanonRoot

getSnapshotPath(c, id) == LocalPath(getSnapshotsRoot(c), IdName(id), "")

getSnapshotFSPathHome(c, id) == getSnapshotPath(c, id)

getSnapshotFSPath(c, id) == Join(getSnapshotPath(c, id), "fs")

getSnapshotWorkPath(c, id) == Join(getSnapshotPath(c, id), "work")

\* determineUpperPath with the fallback its callers in mounts() apply
determineUpperPathLocalOnly(c, id, labels) == [err |-> "", path |-> getSnapshotFSPath(c, id)]

determineUpperPath(c, id, labels) ==
    IF isSharedSnapshot(labels)
    THEN [err |-> getSharedPathBaseErr(labels, id),
          path |-> IF getSharedPathBaseErr(labels, id) = ""
                   THEN Join(getSharedPathBase(labels, id), "fs") ELSE NoPath]
    ELSE [err |-> "", path |-> getSnapshotFSPath(c, id)]

determineWorkPathAsUpper(c, id, labels) == determineUpperPath(c, id, labels)

determineWorkPath(c, id, labels) ==
    IF isSharedSnapshot(labels)
    THEN [err |-> getSharedPathBaseErr(labels, id),
          path |-> IF getSharedPathBaseErr(labels, id) = ""
                   THEN Join(getSharedPathBase(labels, id), "work") ELSE NoPath]
    ELSE [err |-> "", path |-> getSnapshotWorkPath(c, id)]

\* the parent lookup used by createSnapshot and mounts: the configured
\* layout first, the opposite layout when os.Stat fails
OppositeRoot(c) == IF c.shortBasePaths THEN CanonRoot ELSE ShortRoot

parentFSPathNoFallback(c, F, parentID) == getSnapshotFSPath(c, parentID)

parentFSPath(c, F, parentID) ==
    IF getSnapshotFSPath(c, parentID) \in F
    THEN getSnapshotFSPath(c, parentID)
    ELSE LocalPath(OppositeRoot(c), IdName(parentID), "fs")

\* ----------------------------------------------------------- mount composer
Opt(k) == [k |-> k, s |-> "", v |-> <<>>]
StrOpt(k, str) == [k |-> k, s |-> str, v |-> <<>>]
PathOpt(k, paths) == [k |-> k, s |-> "", v |-> paths]

\* config.mountOptions after NewSnapshotter
MountOptions == <<Opt("index=off")>>

IDMapOptionsSwapped(c, labels) ==
    IF c.remapIDs
    THEN (IF LabelSnapshotGIDMapping \in DOMAIN labels
          THEN <<StrOpt("gidmap", labels[LabelSnapshotGIDMapping])>> ELSE <<>>)
         \o
         (IF LabelSnapshotUIDMapping \in DOMAIN labels
          THEN <<StrOpt("uidmap", labels[LabelSnapshotUIDMapping])>> ELSE <<>>)
    ELSE <<>>

IDMapOptions(c, labels) ==
    IF c.remapIDs
    THEN (IF LabelSnapshotUIDMapping \in DOMAIN labels
          THEN <<StrOpt("uidmap", labels[LabelSnapshotUIDMapping])>> ELSE <<>>)
         \o
         (IF LabelSnapshotGIDMapping \in DOMAIN labels
          THEN <<StrOpt("gidmap", labels[LabelSnapshotGIDMapping])>> ELSE <<>>)
    ELSE <<>>

\* the parentPaths loop of mounts()
parentPathsReversed(c, F, ParentIDs) ==
    [i \in 1..Len(ParentIDs) |->
        parentFSPath(c, F, ParentIDs[Len(ParentIDs) + 1 - i])]

parentPaths(c, F, ParentIDs) ==
    [i \in 1..Len(ParentIDs) |-> parentFSPath(c, F, ParentIDs[i])]

\* mounts(s, info): s is [ID, Kind, ParentIDs]
mounts(c, F, s, labels) ==
    LET options == IDMapOptions(c, labels)
        upper == determineUpperPath(c, s.ID, labels)
        actualUpperPath == IF upper.err # "" THEN getSnapshotFSPath(c, s.ID)
                           ELSE upper.path
        work == determineWorkPath(c, s.ID, labels)
        actualWorkPath == IF work.err # "" THEN getSnapshotWorkPath(c, s.ID)
                          ELSE work.path
        lowerdirOption == PathOpt("lowerdir", parentPaths(c, F, s.ParentIDs))
    IN IF Len(s.ParentIDs) = 0
       THEN <<[Type |-> "bind", Source |-> actualUpperPath,
               Options |-> options \o
                   <<Opt(IF s.Kind = "View" THEN "ro" ELSE "rw"), Opt("rbind")>>]>>
       ELSE IF s.Kind = "Active"
       THEN <<[Type |-> "overlay", Source |-> OverlaySource,
               Options |-> options \o
                   <<PathOpt("workdir", <<actualWorkPath>>),
                     PathOpt("upperdir", <<actualUpperPath>>)>> \o
                   <<lowerdirOption>> \o MountOptions]>>
       ELSE IF Len(s.ParentIDs) = 1 /\ s.Kind = "View"
       THEN <<[Type |-> "bind",
               Source |-> parentFSPath(c, F, s.ParentIDs[1]),
               Options |-> options \o <<Opt("ro"), Opt("rbind")>>]>>
       ELSE <<[Type |-> "overlay", Source |-> OverlaySource,
               Options |-> options \o <<lowerdirOption>> \o MountOptions]>>

\* the index and file after the getSharedPathBase calls mounts() makes
mountsReg(ms, F, s, labels) ==
    IF isSharedSnapshot(labels) THEN getSharedPathBaseReg(ms, F, labels, s.ID)
    ELSE ms

\* storage.GetSnapshot
GetSnapshot(m, key) ==
    [ID |-> m[key].id, Kind |-> m[key].kind,
     ParentIDs |-> ParentChain(m, m[key].parent)]

\* Mounts(key): its error, "" if none
MountsErr(m, key) ==
    IF m[key].id = 0 THEN "failed to get active mount: not found"
    ELSE IF m[key].kind \notin {"Active", "View"}
         THEN "failed to get active mount: not active or view"
    ELSE ""

\* Mounts(key): the mount list it returns when there is no error
MountsResult(key) == mounts(cfg, fs, GetSnapshot(meta, key), meta[key].labels)

\* ----------------------------------------------------------------- cleanup
\* the entries os.Open(root).Readdirnames(0) lists
ReaddirnamesNone(F, root) == {}

Readdirnames(F, root) == {d \in F : d.root = root /\ d.sub = ""}

\* the scan of one snapshots root in getCleanupDirectories
scanRootAll(F, ids, root) == Readdirnames(F, root)

scanRoot(F, ids, root) ==
    {d \in Readdirnames(F, root) :
        ~ (d.name[1] = "id" /\ d.name[2] \in ids)}

getCleanupDirectoriesCanonOnly(c, m, F) == scanRoot(F, IDMap(m), CanonRoot)

getCleanupDirectories(c, m, F) ==
    scanRoot(F, IDMap(m), CanonRoot)
    \cup (IF c.shortBasePaths THEN scanRoot(F, IDMap(m), ShortRoot) ELSE {})

RECURSIVE RemoveEach(_, _)
RemoveEach(F, dirs) ==
    IF dirs = {} THEN F
    ELSE LET d == CHOOSE x \in dirs : TRUE
         IN RemoveEach(RemoveAll(F, d), dirs \ {d})

\* --------------------------------------------------------------- processes
\* tx lists the transactions the call has opened so far: "r" read-only,
\* "w" read-write
Idle ==
    [op |-> "idle", st |-> "", kind |-> "", key |-> "", parent |-> "",
     opts |-> EmptyLabels, labels |-> EmptyLabels, id |-> 0,
     parents |-> <<>>, chown |-> FALSE,
     tmp |-> NoPath, err |-> "", dirs |-> {}, shared |-> FALSE,
     base |-> NoPath, created |-> {}, hadRec |-> FALSE, alone |-> TRUE,
     ret |-> <<>>, tx |-> <<>>]

InFlight(q) == pc[q].op # "idle" /\ pc[q].st # "done"

\* no other call is in progress
Quiet(p) == \A q \in Procs \ {p} : ~ InFlight(q)

\* p moves to rec; every other call in progress has seen concurrent activity
Touch(p, rec) ==
    [q \in Procs |->
        IF q = p THEN rec
        ELSE IF InFlight(q) THEN [pc[q] EXCEPT !.alone = FALSE]
        ELSE pc[q]]

Index == [maps |-> globalMappings, files |-> mappingFiles]

\* names os.MkdirTemp does not pick: the ones on disk, and (its suffix is
\* random) the ones a call in progress still holds from an earlier listing
\* or an earlier MkdirTemp
NumTmp == 2 * Cardinality(Procs)

TmpTaken(root) ==
    {n \in 1..NumTmp :
        \/ LocalPath(root, TmpName(n), "") \in fs
        \/ \E q \in Procs : LocalPath(root, TmpName(n), "") \in pc[q].dirs
        \/ \E q \in Procs : LocalPath(root, TmpName(n), "") = pc[q].tmp}

\* os.MkdirTemp(snapshotDir, "new-"): a name that is new
MkdirTemp(root) ==
    LocalPath(root,
        TmpName(CHOOSE n \in 1..NumTmp \ TmpTaken(root) :
                    \A o \in 1..NumTmp \ TmpTaken(root) : n <= o), "")

\* the opts workaround of createSnapshot: the labels the opts carry replace
\* the labels of the info read back in the transaction
applyOptsSkipped(stored, opts) == stored

applyOpts(stored, opts) == opts

\* ------------------------------------------------- createSnapshot, by steps
\* the error of the transaction callback before any directory is made
createPreErrUnchecked(kind, key, parent, labels) == ""

createPreErr(kind, key, parent, labels) ==
    LET needsRemap == \/ LabelSnapshotUIDMapping \in DOMAIN labels
                      \/ LabelSnapshotGIDMapping \in DOMAIN labels
        uidmapLabel == IF LabelSnapshotUIDMapping \in DOMAIN labels
                       THEN labels[LabelSnapshotUIDMapping] ELSE ""
        gidmapLabel == IF LabelSnapshotGIDMapping \in DOMAIN labels
                       THEN labels[LabelSnapshotGIDMapping] ELSE ""
        ParentIDs == ParentChain(meta, parent)
    IN IF CreateSnapshotErr(meta, kind, key, parent) # ""
       THEN "failed to create snapshot metadata"
       ELSE IF needsRemap /\ ~ IDMapParses(uidmapLabel, gidmapLabel)
       THEN "failed to unmarshal snapshot ID mapped labels"
       ELSE IF /\ ~ needsRemap
               /\ Len(ParentIDs) > 0
               /\ parentFSPath(cfg, fs, ParentIDs[1]) \notin fs
       THEN "failed to stat parent for UID/GID"
       ELSE ""

\* mappedUID != -1 && mappedGID != -1 once the callback has derived the pair
createMapped(parent, labels) ==
    \/ LabelSnapshotUIDMapping \in DOMAIN labels
    \/ LabelSnapshotGIDMapping \in DOMAIN labels
    \/ parent # ""

\* storage.CreateSnapshot up to the derivation of the uid/gid pair
CreateBegin(p, kind, key, parent, opts) ==
    /\ pc[p].op = "idle"
    /\ wlock = 0
    /\ LET labels == applyOpts(EmptyLabels, opts)
           e == createPreErr(kind, key, parent, labels)
           rec == [Idle EXCEPT !.op = "create", !.kind = kind, !.key = key,
                               !.parent = parent, !.opts = opts,
                               !.labels = labels, !.tx = <<"w">>,
                               !.alone = Quiet(p)]
       IN IF e # ""
          THEN /\ pc' = Touch(p, [Idle EXCEPT !.op = "create", !.st = "ret",
                                  !.key = key, !.err = e, !.tx = <<"w">>,
                                  !.alone = Quiet(p)])
               /\ UNCHANGED wlock
          ELSE /\ nextId <= env.idCap
               /\ pc' = Touch(p, [rec EXCEPT
                         !.st = "dirs", !.id = nextId,
                         !.parents = ParentChain(meta, parent),
                         !.chown = createMapped(parent, labels)])
               /\ wlock' = p
    /\ UNCHANGED <<cfg, meta, nextId, fs, globalMappings, mappingFiles,
                   prepared, markerFailed, env>>

\* the shared branch: getSharedPathBase, the two MkdirAll, Lchown and the
\* deferred removals that run when the callback returns an error
CreateDirsShared(p) ==
    LET r == pc[p]
        e == getSharedPathBaseErr(r.labels, r.id)
        sharedBase == getSharedPathBase(r.labels, r.id)
        targetUpperPath == Join(sharedBase, "fs")
        targetWorkPath == Join(sharedBase, "work")
        ms == getSharedPathBaseReg(Index, fs, r.labels, r.id)
        withUpper == MkdirAll(fs, targetUpperPath)
        withWork == MkdirAll(withUpper, targetWorkPath)
        hadRec == MappingKey(sharedBase.pod, sharedBase.name[2])
                      \in DOMAIN globalMappings
        Fail(F, msg) ==
            /\ fs' = F
            /\ wlock' = 0
            /\ pc' = Touch(p, [r EXCEPT !.st = "ret", !.err = msg,
                                        !.base = sharedBase, !.hadRec = hadRec,
                                        !.created = F \ fs])
    IN IF e # ""
       THEN /\ wlock' = 0
            /\ pc' = Touch(p, [r EXCEPT !.st = "ret",
                     !.err = "cannot determine shared path for snapshot"])
            /\ UNCHANGED <<fs, globalMappings, mappingFiles>>
       ELSE /\ globalMappings' = ms.maps
            /\ mappingFiles' = ms.files
            /\ \E f \in {"none"} \cup ({"mkupper", "mkwork", "chown"} \cap env.faults) :
                 CASE f = "mkupper" ->
                        Fail(fs, "failed to create shared upperdir")
                   [] f = "mkwork" ->
                        Fail(RemoveAll(withUpper, targetUpperPath),
                             "failed to create shared workdir")
                   [] f = "chown" ->
                        /\ r.chown
                        /\ Fail(RemoveAll(RemoveAll(withWork, targetWorkPath),
                                          targetUpperPath),
                                "failed to chown shared upperdir")
                   [] OTHER ->
                        /\ fs' = withWork
                        /\ pc' = Touch(p, [r EXCEPT !.st = "finish",
                                                    !.base = sharedBase,
                                                    !.hadRec = hadRec,
                                                    !.created = withWork \ fs])
                        /\ UNCHANGED wlock

\* the local branch: prepareDirectory and Lchown on the temporary directory
CreateDirsLocal(p) ==
    LET r == pc[p]
        td == MkdirTemp(getSnapshotsRoot(cfg))
        withFs == {td, Join(td, "fs")}
        full == withFs \cup (IF r.kind = "Active" THEN {Join(td, "work")} ELSE {})
        Fail(made, tmp, msg) ==
            /\ fs' = fs \cup made
            /\ wlock' = 0
            /\ pc' = Touch(p, [r EXCEPT !.st = "ret", !.err = msg, !.tmp = tmp,
                                        !.created = made])
    IN /\ 1..NumTmp \ TmpTaken(getSnapshotsRoot(cfg)) # {}
       /\ \E f \in {"none"} \cup ({"mktemp", "mkfs", "mkwork", "chown"} \cap env.faults) :
            CASE f = "mktemp" -> Fail({}, NoPath, "failed to create temp dir")
              [] f = "mkfs" ->
                   Fail({td}, td, "failed to create prepare local snapshot dir")
              [] f = "mkwork" ->
                   /\ r.kind = "Active"
                   /\ Fail(withFs, td,
                           "failed to create prepare local snapshot dir")
              [] f = "chown" ->
                   /\ r.chown
                   /\ Fail(full, td, "failed to chown local temp snapshot")
              [] OTHER ->
                   /\ fs' = fs \cup full
                   /\ pc' = Touch(p, [r EXCEPT !.st = "finish", !.tmp = td,
                                               !.created = full])
                   /\ UNCHANGED wlock
       /\ UNCHANGED <<globalMappings, mappingFiles>>

CreateDirs(p) ==
    /\ pc[p].op = "create"
    /\ pc[p].st = "dirs"
    /\ IF isSharedSnapshot(pc[p].labels) /\ pc[p].kind = "Active"
       THEN CreateDirsShared(p)
       ELSE CreateDirsLocal(p)
    /\ UNCHANGED <<cfg, meta, nextId, prepared, markerFailed, env>>

\* os.Rename(oldpath, newpath) of a directory fails when newpath is a
\* directory that is not empty
RenameBlocked(F, newpath) == \E d \in Below(newpath, F) : d.sub # ""

RenameNothing(F, oldpath, newpath) == F

Rename(F, oldpath, newpath) ==
    (F \ (Below(oldpath, F) \cup Below(newpath, F)))
    \cup {[d EXCEPT !.name = newpath.name] : d \in Below(oldpath, F)}

\* the end of the transaction callback and the commit or rollback
CreateFinish(p) ==
    /\ pc[p].op = "create"
    /\ pc[p].st = "finish"
    /\ LET r == pc[p]
           rec == [id |-> r.id, kind |-> r.kind, parent |-> r.parent,
                   labels |-> r.opts, usage |-> 0]
           Commit_ ==
               /\ meta' = [meta EXCEPT ![r.key] = rec]
               /\ nextId' = nextId + 1
       IN IF isSharedSnapshot(r.labels) /\ r.kind = "Active"
          THEN LET ensureLocalSnapshotIDDir == getSnapshotPath(cfg, r.id)
               IN /\ Commit_
                  /\ \E mkdirOK \in {TRUE} \cup {FALSE : x \in {"marker"} \cap env.faults} :
                       IF ensureLocalSnapshotIDDir \in fs
                       THEN /\ mkdirOK
                            /\ UNCHANGED <<fs, markerFailed>>
                            /\ pc' = Touch(p, [r EXCEPT !.st = "ret"])
                       ELSE IF mkdirOK
                       THEN /\ fs' = fs \cup {ensureLocalSnapshotIDDir}
                            /\ UNCHANGED markerFailed
                            /\ pc' = Touch(p, [r EXCEPT !.st = "ret",
                                   !.created = @ \cup {ensureLocalSnapshotIDDir}])
                       ELSE /\ markerFailed' = markerFailed \cup {r.id}
                            /\ UNCHANGED fs
                            /\ pc' = Touch(p, [r EXCEPT !.st = "ret"])
          ELSE LET localSnapshotFinalPath == getSnapshotPath(cfg, r.id)
               IN \E renameOK \in {TRUE} \cup {FALSE : x \in {"rename"} \cap env.faults} :
                    IF renameOK /\ r.tmp \in fs
                    THEN /\ ~ RenameBlocked(fs, localSnapshotFinalPath)
                         /\ fs' = Rename(fs, r.tmp, localSnapshotFinalPath)
                         /\ Commit_
                         /\ pc' = Touch(p, [r EXCEPT !.st = "ret",
                                !.tmp = NoPath,
                                !.created = Below(localSnapshotFinalPath, fs')])
                         /\ UNCHANGED markerFailed
                    ELSE /\ pc' = Touch(p, [r EXCEPT !.st = "ret",
                                !.err = "failed to rename local snapshot dir"])
                         /\ UNCHANGED <<fs, meta, nextId, markerFailed>>
    /\ wlock' = 0
    /\ UNCHANGED <<cfg, globalMappings, mappingFiles, prepared, env>>

\* after the transaction: the deferred removal of the temporary directory
\* on error, else the mounts that are returned
CreateReturn(p) ==
    /\ pc[p].op = "create"
    /\ pc[p].st = "ret"
    /\ LET r == pc[p]
           s == [ID |-> r.id, Kind |-> r.kind, ParentIDs |-> r.parents]
           ms == mountsReg(Index, fs, s, r.labels)
           result == mounts(cfg, fs, s, r.labels)
       IN IF r.err # ""
          THEN /\ fs' = IF r.tmp # NoPath THEN RemoveAll(fs, r.tmp) ELSE fs
               /\ pc' = Touch(p, [r EXCEPT !.st = "done"])
               /\ UNCHANGED <<globalMappings, mappingFiles, prepared>>
          ELSE /\ globalMappings' = ms.maps
               /\ mappingFiles' = ms.files
               /\ pc' = Touch(p, [r EXCEPT !.st = "done", !.ret = result])
               /\ prepared' = IF r.kind = "Active" /\ meta[r.key].id = r.id
                              THEN [prepared EXCEPT ![r.key] = result]
                              ELSE prepared
               /\ UNCHANGED fs
    /\ UNCHANGED <<cfg, meta, nextId, wlock, markerFailed, env>>

\* ------------------------------------------------------------------ Mounts
\* a call made by a caller other than the processes: it is one step, and
\* every call in progress has seen concurrent activity
Disturb == [q \in Procs |->
               IF InFlight(q) THEN [pc[q] EXCEPT !.alone = FALSE] ELSE pc[q]]

Mounts(key) ==
    /\ MountsErr(meta, key) = ""
    /\ LET ms == mountsReg(Index, fs, GetSnapshot(meta, key), meta[key].labels)
       IN /\ globalMappings' = ms.maps
          /\ mappingFiles' = ms.files
    /\ pc' = Disturb
    /\ UNCHANGED <<cfg, meta, nextId, wlock, fs, prepared, markerFailed, env>>

\* ------------------------------------------------------------------ Commit
\* Commit(name, key, opts): the error of its transaction callback
commitErr(name, key) ==
    LET upper == determineUpperPath(cfg, meta[key].id, meta[key].labels)
    IN IF meta[key].id = 0 THEN "not found"
       ELSE IF upper.err # "" THEN "failed to determine upper path for commit"
       ELSE IF upper.path \notin fs THEN "disk usage: no such file or directory"
       ELSE IF CommitActiveErr(meta, key, name) # ""
       THEN "failed to commit snapshot"
       ELSE ""

Commit(name, key, opts) ==
    /\ wlock = 0
    /\ name # key
    /\ meta[key].id # 0
    /\ LET e == commitErr(name, key)
           ms == IF isSharedSnapshot(meta[key].labels)
                 THEN getSharedPathBaseReg(Index, fs, meta[key].labels,
                                           meta[key].id)
                 ELSE Index
       IN /\ globalMappings' = ms.maps
          /\ mappingFiles' = ms.files
          /\ IF e # ""
             THEN UNCHANGED <<meta, prepared>>
             ELSE /\ meta' = [meta EXCEPT
                        ![key] = NoSnap,
                        ![name] = [id |-> meta[key].id, kind |-> "Committed",
                                   parent |-> meta[key].parent,
                                   labels |-> opts,
                                   usage |-> DiskUsage(fs,
                                       determineUpperPath(cfg, meta[key].id,
                                           meta[key].labels).path)]]
                  /\ prepared' = [prepared EXCEPT ![key] = <<>>]
    /\ pc' = Disturb
    /\ UNCHANGED <<cfg, nextId, wlock, fs, markerFailed, env>>

\* ----------------------------------------------------------- Stat and Usage
\* Stat(key): the info of the store (upperdirLabel is not set)
Stat(m, key) == [Kind |-> m[key].kind, Labels |-> m[key].labels]

\* Usage(key): its error, "" if none
UsageErr(c, m, F, key) ==
    LET upper == determineUpperPath(c, m[key].id, m[key].labels)
    IN IF m[key].id = 0 THEN "not found"
       ELSE IF m[key].kind # "Active" THEN ""
       ELSE IF upper.err # ""
       THEN "failed to determine upper path for usage calculation"
       ELSE IF upper.path \notin F THEN "disk usage: no such file or directory"
       ELSE ""

\* Usage(key): the usage it returns when there is no error
UsageMeasured(c, m, F, key) ==
    DiskUsage(F, determineUpperPath(c, m[key].id, m[key].labels).path)

Usage(c, m, F, key) ==
    IF m[key].kind = "Active"
    THEN DiskUsage(F, determineUpperPath(c, m[key].id, m[key].labels).path)
    ELSE m[key].usage

\* a container (or anyone else on the node) writes below an fs directory or
\* deletes what is there
WriteData(d) ==
    /\ d \in fs
    /\ d.sub = "fs"
    /\ fs' = IF Join(d, DataSub) \in fs THEN fs \ {Join(d, DataSub)}
             ELSE fs \cup {Join(d, DataSub)}
    /\ pc' = Disturb
    /\ UNCHANGED <<cfg, meta, nextId, wlock, globalMappings, mappingFiles,
                   prepared, markerFailed, env>>

\* the directory of a committed snapshot is moved from <root>/snapshots/<id>
\* to /s/l/<id> by the operator while short paths are enabled; the parent
\* lookups of createSnapshot and mounts see the disk as it then is
MoveToShortRoot(id) ==
    LET canon == LocalPath(CanonRoot, IdName(id), "")
        short == LocalPath(ShortRoot, IdName(id), "")
    IN /\ cfg.shortBasePaths
       /\ \E k \in Keys : meta[k].id = id /\ meta[k].kind = "Committed"
       /\ canon \in fs
       /\ Below(short, fs) = {}
       /\ fs' = (fs \ Below(canon, fs))
                  \cup {[d EXCEPT !.root = ShortRoot] : d \in Below(canon, fs)}
       /\ pc' = Disturb
       /\ UNCHANGED <<cfg, meta, nextId, wlock, globalMappings, mappingFiles,
                      prepared, markerFailed, env>>

\* ------------------------------------------------------------------ Remove
\* the pre-read transaction and the decision about the shared base
RemovePre(p, key) ==
    /\ pc[p].op = "idle"
    /\ LET id == meta[key].id
           info == meta[key].labels
           isDirectoryShared ==
               id # 0 /\ isSharedSnapshot(info) /\ getSharedPathBaseErr(info, id) = ""
           ms == IF id # 0 /\ isSharedSnapshot(info)
                 THEN getSharedPathBaseReg(Index, fs, info, id) ELSE Index
       IN /\ pc' = Touch(p, [Idle EXCEPT
                 !.op = "remove", !.st = "meta", !.key = key, !.id = id,
                 !.tx = <<"r">>,
                 !.labels = info, !.kind = meta[key].kind,
                 !.shared = isDirectoryShared,
                 !.base = IF isDirectoryShared THEN getSharedPathBase(info, id)
                          ELSE NoPath,
                 !.alone = Quiet(p)])
          /\ globalMappings' = ms.maps
          /\ mappingFiles' = ms.files
    /\ UNCHANGED <<cfg, meta, nextId, wlock, fs, prepared, markerFailed, env>>

\* the write transaction: storage.Remove and, when removal is synchronous,
\* getCleanupDirectories
RemoveMeta(p) ==
    /\ pc[p].op = "remove"
    /\ pc[p].st = "meta"
    /\ wlock = 0
    /\ LET r == pc[p]
           e == StorageRemoveErr(meta, r.key)
           removed == [meta EXCEPT ![r.key] = NoSnap]
       IN IF e # ""
          THEN /\ pc' = Touch(p, [r EXCEPT !.st = "done",
                      !.tx = Append(r.tx, "w"),
                      !.err = "failed to remove snapshot from metastore"])
               /\ UNCHANGED <<meta, prepared>>
          ELSE /\ meta' = removed
               /\ prepared' = [prepared EXCEPT ![r.key] = <<>>]
               /\ pc' = Touch(p, [r EXCEPT
                      !.st = "delete", !.tx = Append(r.tx, "w"),
                      !.id = IF r.id = 0 THEN meta[r.key].id ELSE r.id,
                      !.dirs = IF cfg.asyncRemove THEN {}
                               ELSE getCleanupDirectories(cfg, removed, fs)])
    /\ UNCHANGED <<cfg, nextId, wlock, fs, globalMappings, mappingFiles,
                   markerFailed, env>>

\* what Remove deletes after its transaction: the staged local directories;
\* the shared base is kept
removeTargetsWithShared(localDirectoriesToRemove, isDirectoryShared, sharedPathToRemove) ==
    localDirectoriesToRemove
    \cup (IF isDirectoryShared THEN {sharedPathToRemove} ELSE {})

removeTargets(localDirectoriesToRemove, isDirectoryShared, sharedPathToRemove) ==
    localDirectoriesToRemove

RemoveDelete(p) ==
    /\ pc[p].op = "remove"
    /\ pc[p].st = "delete"
    /\ fs' = RemoveEach(fs, removeTargets(pc[p].dirs, pc[p].shared, pc[p].base))
    /\ pc' = Touch(p, [pc[p] EXCEPT !.st = "done"])
    /\ UNCHANGED <<cfg, meta, nextId, wlock, globalMappings, mappingFiles,
                   prepared, markerFailed, env>>

\* ----------------------------------------------------------------- Cleanup
\* a scan that reads the ids in a transaction of its own before the write one
CleanupScanReadFirst(p) ==
    /\ pc[p].op = "idle"
    /\ wlock = 0
    /\ pc' = Touch(p, [Idle EXCEPT
             !.op = "cleanup", !.st = "delete", !.tx = <<"r", "w">>,
             !.dirs = getCleanupDirectories(cfg, meta, fs),
             !.alone = Quiet(p)])
    /\ UNCHANGED <<cfg, meta, nextId, wlock, fs, globalMappings, mappingFiles,
                   prepared, markerFailed, env>>

\* cleanupDirectories: the scan under a write transaction
CleanupScan(p) ==
    /\ pc[p].op = "idle"
    /\ wlock = 0
    /\ pc' = Touch(p, [Idle EXCEPT
             !.op = "cleanup", !.st = "delete", !.tx = <<"w">>,
             !.dirs = getCleanupDirectories(cfg, meta, fs),
             !.alone = Quiet(p)])
    /\ UNCHANGED <<cfg, meta, nextId, wlock, fs, globalMappings, mappingFiles,
                   prepared, markerFailed, env>>

CleanupDeleteListed(p) ==
    /\ pc[p].op = "cleanup"
    /\ pc[p].st = "delete"
    /\ fs' = RemoveEach(fs, Readdirnames(fs, CanonRoot)
                            \cup Readdirnames(fs, ShortRoot))
    /\ pc' = Touch(p, [pc[p] EXCEPT !.st = "done"])
    /\ UNCHANGED <<cfg, meta, nextId, wlock, globalMappings, mappingFiles,
                   prepared, markerFailed, env>>

CleanupDelete(p) ==
    /\ pc[p].op = "cleanup"
    /\ pc[p].st = "delete"
    /\ fs' = RemoveEach(fs, pc[p].dirs)
    /\ pc' = Touch(p, [pc[p] EXCEPT !.st = "done"])
    /\ UNCHANGED <<cfg, meta, nextId, wlock, globalMappings, mappingFiles,
                   prepared, markerFailed, env>>

\* the call has returned; the process is free for its next call
Return(p) ==
    /\ pc[p].st = "done"
    /\ pc' = [pc EXCEPT ![p] = Idle]
    /\ UNCHANGED <<cfg, meta, nextId, wlock, fs, globalMappings, mappingFiles,
                   prepared, markerFailed, env>>

\* the id sequence of the metadata store moves on: other callers prepare and
\* remove snapshots, and Cleanup removes their directories, until the next
\* id to be issued is the first whose digest repeats the digest of id 1
AdvanceIds ==
    /\ wlock = 0
    /\ nextId <= HashSpace
    /\ nextId' = HashSpace + 1
    /\ env' = [env EXCEPT !.idCap = HashSpace + MaxCollideId]
    /\ pc' = Disturb
    /\ UNCHANGED <<cfg, meta, wlock, fs, globalMappings, mappingFiles,
                   prepared, markerFailed>>

\* ----------------------------------------------------------- construction
\* the process ends and NewSnapshotter runs again on the same disk, with or
\* without WithShortBasePaths; the in-memory path mapping index starts empty
NewSnapshotter(short) ==
    /\ \A q \in Procs : pc[q].op = "idle"
    /\ cfg' = [cfg EXCEPT !.shortBasePaths = short]
    /\ pc' = [q \in Procs |-> Idle]
    /\ globalMappings' = <<>>
    /\ prepared' = [k \in Keys |-> <<>>]
    /\ UNCHANGED <<meta, nextId, wlock, fs, mappingFiles, markerFailed, env>>

\* ------------------------------------------------------------ specification
AllFaults == {"mkupper", "mkwork", "chown", "marker", "mktemp", "mkfs", "rename"}

InitWith(cfgs, disks, e) ==
    /\ cfg \in cfgs
    /\ meta = [k \in Keys |-> NoSnap]
    /\ nextId = 1
    /\ wlock = 0
    /\ fs \in disks
    /\ globalMappings = <<>>
    /\ mappingFiles = [d \in SharedDisks |-> [present |-> FALSE, entries |-> <<>>]]
    /\ pc = [q \in Procs |-> Idle]
    /\ prepared = [k \in Keys |-> <<>>]
    /\ markerFailed = {}
    /\ env = e

Configs == [shortBasePaths : BOOLEAN, asyncRemove : BOOLEAN, remapIDs : BOOLEAN]
EmptyDisk == {}
DiskWithSentinel == {LocalPath(ShortRoot, Sentinel, "")}

Cfg(short, async, remap) ==
    [shortBasePaths |-> short, asyncRemove |-> async, remapIDs |-> remap]

LocalOrShared == {EmptyLabels, SharedLabels(ExternalDisk)}

\* --- Spec: the lifecycle of local and shared snapshots, one caller at a
\* --- time, in both layouts and both removal modes, with no failing system
\* --- call; the short root may hold its marker file
Init ==
    InitWith({Cfg(short, async, FALSE) : short \in BOOLEAN, async \in BOOLEAN},
             {EmptyDisk, DiskWithSentinel}, [faults |-> {}, idCap |-> MaxId])

Next ==
    \/ \E kind \in {"Active", "View"}, key \in {"a", "base"},
          parent \in {"base", ""},
          opts \in LocalOrShared \cup {SharedLabels(SharedStorageBase)} :
            CreateBegin(1, kind, key, parent, opts)
    \/ CreateDirs(1)
    \/ CreateFinish(1)
    \/ CreateReturn(1)
    \/ \E key \in Keys : Mounts(key)
    \/ \E opts \in {EmptyLabels, meta["a"].labels} : Commit("base", "a", opts)
    \/ \E key \in {"a", "base"} : RemovePre(1, key)
    \/ RemoveMeta(1)
    \/ RemoveDelete(1)
    \/ CleanupScan(1)
    \/ CleanupDelete(1)
    \/ Return(1)

Spec == Init /\ [][Next]_vars

\* --- SpecLayout: the snapshotter is constructed again with or without
\* --- short paths while snapshots exist; the marker Mkdir may fail
InitLayout ==
    InitWith({Cfg(short, TRUE, FALSE) : short \in BOOLEAN}, {EmptyDisk},
             [faults |-> {"marker"}, idCap |-> MaxLayoutId])

NextLayout ==
    \/ \E kind \in {"Active", "View"}, key \in {"a", "base"},
          parent \in {"base", ""}, opts \in LocalOrShared :
            CreateBegin(1, kind, key, parent, opts)
    \/ CreateDirs(1)
    \/ CreateFinish(1)
    \/ CreateReturn(1)
    \/ \E key \in Keys : Mounts(key)
    \/ \E opts \in {EmptyLabels, meta["a"].labels} : Commit("base", "a", opts)
    \/ \E key \in {"a", "base"} : RemovePre(1, key)
    \/ RemoveMeta(1)
    \/ RemoveDelete(1)
    \/ CleanupScan(1)
    \/ CleanupDelete(1)
    \/ Return(1)
    \/ \E short \in BOOLEAN : NewSnapshotter(short)

SpecLayout == InitLayout /\ [][NextLayout]_vars

\* --- SpecFault: Prepare and View with every system-call failure and every
\* --- label set
InitFault ==
    InitWith({Cfg(TRUE, TRUE, FALSE)}, {EmptyDisk},
             [faults |-> AllFaults, idCap |-> MaxFaultId])

NextFault ==
    \/ \E kind \in {"Active", "View"}, key \in {"a", "base"},
          parent \in {"base", ""}, opts \in LabelChoices \ {SharedLabels(SharedStorageBase)} :
            CreateBegin(1, kind, key, parent, opts)
    \/ CreateDirs(1)
    \/ CreateFinish(1)
    \/ CreateReturn(1)
    \/ Commit("base", "a", EmptyLabels)
    \/ \E key \in {"a", "base"} : RemovePre(1, key)
    \/ RemoveMeta(1)
    \/ RemoveDelete(1)
    \/ Return(1)

SpecFault == InitFault /\ [][NextFault]_vars

\* --- SpecChain: chains of committed parents and the mounts composed on them
InitChain ==
    InitWith({Cfg(short, TRUE, remap) : short \in BOOLEAN, remap \in BOOLEAN},
             {EmptyDisk}, [faults |-> {}, idCap |-> MaxChainId])

NextChain ==
    \/ \E kind \in {"Active", "View"}, key \in {"a"}, parent \in Keys \cup {""},
          opts \in {EmptyLabels, IDMapLabels(GoodIDMap)} :
            CreateBegin(1, kind, key, parent, opts)
    \/ CreateDirs(1)
    \/ CreateFinish(1)
    \/ CreateReturn(1)
    \/ \E key \in Keys : Mounts(key)
    \/ \E name \in {"base", "b"} : Commit(name, "a", EmptyLabels)
    \/ RemovePre(1, "a")
    \/ RemoveMeta(1)
    \/ RemoveDelete(1)
    \/ Return(1)
    \/ \E short \in BOOLEAN : NewSnapshotter(short)

SpecChain == InitChain /\ [][NextChain]_vars

\* --- SpecConc: two callers at once, with Cleanup and synchronous Remove
InitConc ==
    InitWith({Cfg(TRUE, FALSE, FALSE)}, {EmptyDisk},
             [faults |-> {"rename"}, idCap |-> MaxConcId])

NextConc ==
    \/ \E p \in Procs, kind \in {"Active", "View"}, key \in {"a"},
          opts \in LocalOrShared :
            CreateBegin(p, kind, key, "", opts)
    \/ \E p \in Procs : CreateDirs(p)
    \/ \E p \in Procs : CreateFinish(p)
    \/ \E p \in Procs : CreateReturn(p)
    \/ \E p \in Procs : RemovePre(p, "a")
    \/ \E p \in Procs : RemoveMeta(p)
    \/ \E p \in Procs : RemoveDelete(p)
    \/ \E p \in Procs : CleanupScan(p)
    \/ \E p \in Procs : CleanupDelete(p)
    \/ \E p \in Procs : Return(p)

SpecConc == InitConc /\ [][NextConc]_vars

\* --- SpecUsage: containers write into the fs directories of snapshots that
\* --- are prepared, committed and measured
InitUsage ==
    InitWith({Cfg(short, TRUE, FALSE) : short \in BOOLEAN}, {EmptyDisk},
             [faults |-> {}, idCap |-> MaxUsageId])

NextUsage ==
    \/ \E kind \in {"Active", "View"}, key \in {"a", "base"},
          parent \in {"base", ""}, opts \in LocalOrShared :
            CreateBegin(1, kind, key, parent, opts)
    \/ CreateDirs(1)
    \/ CreateFinish(1)
    \/ CreateReturn(1)
    \/ \E d \in fs : WriteData(d)
    \/ Commit("base", "a", EmptyLabels)
    \/ \E key \in {"a", "base"} : RemovePre(1, key)
    \/ RemoveMeta(1)
    \/ RemoveDelete(1)
    \/ CleanupScan(1)
    \/ CleanupDelete(1)
    \/ Return(1)

SpecUsage == InitUsage /\ [][NextUsage]_vars

\* --- SpecLabels: Prepare and View with label sets in which one of the
\* --- shared-storage labels is absent, empty or not "true"
InitLabels ==
    InitWith({Cfg(TRUE, FALSE, FALSE)}, {EmptyDisk},
             [faults |-> {}, idCap |-> MaxLabelId])

NextLabels ==
    \/ \E kind \in {"Active", "View"}, opts \in LabelVariants :
            CreateBegin(1, kind, "a", "", opts)
    \/ CreateDirs(1)
    \/ CreateFinish(1)
    \/ CreateReturn(1)
    \/ Mounts("a")
    \/ RemovePre(1, "a")
    \/ RemoveMeta(1)
    \/ RemoveDelete(1)
    \/ Return(1)

SpecLabels == InitLabels /\ [][NextLabels]_vars

\* --- SpecMove: snapshots made under <root>/snapshots, short paths enabled
\* --- afterwards, and committed parents moved to the short root one by one
InitMove ==
    InitWith({Cfg(FALSE, TRUE, FALSE)}, {EmptyDisk},
             [faults |-> {}, idCap |-> MaxMoveId])

NextMove ==
    \/ \E kind \in {"Active", "View"}, parent \in Keys \cup {""} :
            CreateBegin(1, kind, "a", parent, EmptyLabels)
    \/ CreateDirs(1)
    \/ CreateFinish(1)
    \/ CreateReturn(1)
    \/ \E key \in Keys : Mounts(key)
    \/ \E name \in {"base", "b"} : Commit(name, "a", EmptyLabels)
    \/ \E k \in Keys : MoveToShortRoot(meta[k].id)
    \/ RemovePre(1, "a")
    \/ RemoveMeta(1)
    \/ RemoveDelete(1)
    \/ Return(1)
    \/ \E short \in BOOLEAN : NewSnapshotter(short)

SpecMove == InitMove /\ [][NextMove]_vars

\* --- SpecCollide: a long-lived store: snapshots stay alive while the id
\* --- sequence reaches ids whose digest is the digest of an earlier id
InitCollide ==
    InitWith({Cfg(TRUE, FALSE, FALSE)}, {EmptyDisk},
             [faults |-> {}, idCap |-> MaxCollideId])

NextCollide ==
    \/ \E key \in {"a", "base"}, opts \in LocalOrShared :
            CreateBegin(1, "Active", key, "", opts)
    \/ CreateDirs(1)
    \/ CreateFinish(1)
    \/ CreateReturn(1)
    \/ AdvanceIds
    \/ \E key \in {"a", "base"} : Mounts(key)
    \/ \E key \in {"a", "base"} : RemovePre(1, key)
    \/ RemoveMeta(1)
    \/ RemoveDelete(1)
    \/ Return(1)

SpecCollide == InitCollide /\ [][NextCollide]_vars

\* ================================================================== claims

\* C1: Remove of an Active snapshot prepared with the shared-storage labels
\* (synchronous or asynchronous) never removes anything on the shared disk:
\* no step of Remove or Cleanup changes the shared directories, so
\* <disk>/<pod_hash>/<snapshot_hash> and its fs directory still exist; and
\* when the removing transaction succeeds the metadata store has no snapshot
\* for the key.
C1_SharedRetained ==
    [][\A p \in Procs :
         /\ (pc[p].op = "idle" /\ pc'[p].op \in {"remove", "cleanup"})
              => SharedDirs(fs') = SharedDirs(fs)
         /\ (pc[p].op = "remove" /\ pc[p].st = "meta" /\ pc'[p].st = "delete")
              => /\ meta'[pc[p].key] = NoSnap
                 /\ SharedDirs(fs') = SharedDirs(fs)
         /\ (/\ pc[p].op \in {"remove", "cleanup"}
             /\ pc[p].st = "delete" /\ pc'[p].st = "done")
              => SharedDirs(fs') = SharedDirs(fs)]_vars

\* a synchronous Remove of a shared Active snapshot has returned: its marker
\* home is gone, its shared base and fs directory are on disk
C1_Witness ==
    \E p \in Procs :
        /\ pc[p].op = "remove" /\ pc[p].st = "done" /\ pc[p].err = ""
        /\ pc[p].shared /\ pc[p].kind = "Active"
        /\ ~ cfg.asyncRemove
        /\ getSnapshotPath(cfg, pc[p].id) \notin fs
        /\ pc[p].base \in fs
        /\ Join(pc[p].base, "fs") \in fs
        /\ meta[pc[p].key] = NoSnap

\* C2: every Prepare carrying the shared-storage labels whose
\* shared_disk_path equals the local shared-storage base is rejected with an
\* error, and no directory is created under that base for it.
C2_ConflictRejected ==
    /\ \A p \in Procs :
         (/\ pc[p].op = "create" /\ pc[p].kind = "Active"
          /\ pc[p].st \in {"finish", "ret", "done"}
          /\ isSharedSnapshot(pc[p].labels)
          /\ LabelSharedDiskPath \in DOMAIN pc[p].labels
          /\ pc[p].labels[LabelSharedDiskPath] = SharedStorageBase)
            => pc[p].err # ""
    /\ \A d \in fs : ~ (d.root = "shared" /\ d.disk = SharedStorageBase)

\* C3: for every snapshot with at least one parent whose mounts are an
\* overlay, the paths of the single lowerdir option, read left to right, name
\* the fs directories of the snapshot's parent ids as the metadata store
\* records them, nearest parent first; this holds for the mounts Mounts
\* returns and for the mounts Prepare and View return.
C3_LowerdirOrder ==
    /\ \A k \in Keys :
         (MountsErr(meta, k) = "" /\ MountsResult(k)[1].Type = "overlay")
           => LET m == MountsResult(k)[1]
                  ids == ParentChain(meta, meta[k].parent)
                  lows == {i \in 1..Len(m.Options) : m.Options[i].k = "lowerdir"}
              IN /\ Cardinality(lows) = 1
                 /\ \A i \in lows :
                      /\ Len(m.Options[i].v) = Len(ids)
                      /\ \A j \in 1..Len(ids) :
                           /\ m.Options[i].v[j].root \in {CanonRoot, ShortRoot}
                           /\ m.Options[i].v[j].name = IdName(ids[j])
                           /\ m.Options[i].v[j].sub = "fs"
    /\ \A p \in Procs :
         (/\ pc[p].op = "create" /\ pc[p].st = "done" /\ pc[p].err = ""
          /\ pc[p].ret[1].Type = "overlay")
           => LET m == pc[p].ret[1]
                  ids == pc[p].parents
                  lows == {i \in 1..Len(m.Options) : m.Options[i].k = "lowerdir"}
              IN /\ Cardinality(lows) = 1
                 /\ \A i \in lows :
                      /\ Len(m.Options[i].v) = Len(ids)
                      /\ \A j \in 1..Len(ids) :
                           /\ m.Options[i].v[j].root \in {CanonRoot, ShortRoot}
                           /\ m.Options[i].v[j].name = IdName(ids[j])
                           /\ m.Options[i].v[j].sub = "fs"

\* a Prepare on a chain of two committed parents has returned an overlay
C3_Witness ==
    \E p \in Procs :
        /\ pc[p].op = "create" /\ pc[p].st = "done" /\ pc[p].err = ""
        /\ pc[p].kind = "Active"
        /\ Len(pc[p].parents) >= 2
        /\ pc[p].parents[1] # pc[p].parents[2]
        /\ pc[p].ret[1].Type = "overlay"
        /\ MountsErr(meta, pc[p].key) = ""
        /\ MountsResult(pc[p].key) = pc[p].ret

\* C4 (as stated): in every interleaving of Cleanup or synchronous Remove
\* with a concurrent Prepare or View, the directories deleted never include
\* the home directory of a snapshot whose id is in the metadata store nor the
\* temporary new-* directory of a create that has not returned, and a create
\* that returns success finds its home directory present.
C4_Original ==
    [][\A p \in Procs :
         /\ (/\ pc[p].op \in {"remove", "cleanup"}
             /\ pc[p].st = "delete" /\ pc'[p].st = "done")
              => \A d \in fs \ fs' :
                   /\ ~ (/\ d.root \in {CanonRoot, ShortRoot}
                         /\ d.name[1] = "id" /\ d.name[2] \in IDMap(meta))
                   /\ ~ \E q \in Procs :
                          /\ pc[q].op = "create"
                          /\ pc[q].st \in {"dirs", "finish", "ret"}
                          /\ pc[q].tmp # NoPath
                          /\ d.root = pc[q].tmp.root
                          /\ d.name = pc[q].tmp.name
         /\ (/\ pc[p].op = "create" /\ pc[p].st = "ret" /\ pc[p].err = ""
             /\ pc'[p].st = "done" /\ pc[p].id \notin markerFailed)
              => getSnapshotPath(cfg, pc[p].id) \in fs']_vars

\* C4 (amended): the directories deleted never include the home directory of
\* a snapshot whose id is in the metadata store nor the temporary directory
\* of a create whose transaction is open; a create that returns success
\* finds its home directory present unless its snapshot has already been
\* removed from the metadata store.
C4_LiveDirsKept ==
    [][\A p \in Procs :
         /\ (/\ pc[p].op \in {"remove", "cleanup"}
             /\ pc[p].st = "delete" /\ pc'[p].st = "done")
              => \A d \in fs \ fs' :
                   /\ ~ (/\ d.root \in {CanonRoot, ShortRoot}
                         /\ d.name[1] = "id" /\ d.name[2] \in IDMap(meta))
                   /\ ~ \E q \in Procs :
                          /\ pc[q].op = "create"
                          /\ pc[q].st \in {"dirs", "finish"}
                          /\ pc[q].tmp # NoPath
                          /\ d.root = pc[q].tmp.root
                          /\ d.name = pc[q].tmp.name
         /\ (/\ pc[p].op = "create" /\ pc[p].st = "ret" /\ pc[p].err = ""
             /\ pc'[p].st = "done" /\ pc[p].id \notin markerFailed)
              => \/ getSnapshotPath(cfg, pc[p].id) \in fs'
                 \/ pc[p].id \notin IDMap(meta)]_vars

\* one caller holds a cleanup set that is not empty while the other caller's
\* create is inside its transaction with its temporary directory on disk
C4_Witness ==
    \E p \in Procs, q \in Procs :
        /\ p # q
        /\ pc[p].op = "create" /\ pc[p].st = "finish"
        /\ pc[p].tmp \in fs
        /\ pc[q].op \in {"remove", "cleanup"} /\ pc[q].st = "delete"
        /\ pc[q].dirs # {}

\* C5 (as stated): after a Cleanup that ran with no concurrent activity and
\* no filesystem error, the directory names under the snapshots root (both
\* roots when short paths are enabled) are exactly the ids in the metadata
\* store.
C5_Original ==
    [][\A p \in Procs :
         (/\ pc[p].op = "cleanup" /\ pc[p].st = "delete" /\ pc'[p].st = "done"
          /\ pc[p].alone /\ Quiet(p)
          /\ markerFailed \cap IDMap(meta) = {})
           => LET names(root) == {d.name : d \in Readdirnames(fs', root)}
                  swept == names(CanonRoot) \cup
                           (IF cfg.shortBasePaths THEN names(ShortRoot) ELSE {})
              IN swept = {IdName(i) : i \in IDMap(meta)}]_vars

\* C5 (amended): after such a Cleanup every directory name under a swept
\* root is a live id and every live id names a directory under the canonical
\* or the short root; with short paths enabled both roots are swept and
\* their names together are exactly the ids.
C5_SweptRootsLive ==
    [][\A p \in Procs :
         (/\ pc[p].op = "cleanup" /\ pc[p].st = "delete" /\ pc'[p].st = "done"
          /\ pc[p].alone /\ Quiet(p)
          /\ markerFailed \cap IDMap(meta) = {})
           => LET names(root) == {d.name : d \in Readdirnames(fs', root)}
                  swept == names(CanonRoot) \cup
                           (IF cfg.shortBasePaths THEN names(ShortRoot) ELSE {})
                  ids == {IdName(i) : i \in IDMap(meta)}
              IN /\ swept \subseteq ids
                 /\ ids \subseteq names(CanonRoot) \cup names(ShortRoot)
                 /\ cfg.shortBasePaths => swept = ids]_vars

\* a quiet Cleanup with short paths enabled has deleted a stale entry of the
\* short root while a live snapshot keeps its home
C5_Witness ==
    \E p \in Procs :
        /\ pc[p].op = "cleanup" /\ pc[p].st = "done" /\ pc[p].alone
        /\ cfg.shortBasePaths
        /\ \E d \in pc[p].dirs : d.root = ShortRoot /\ d \notin fs
        /\ \E i \in IDMap(meta) : getSnapshotPath(cfg, i) \in fs

\* C6: the set of directories a cleanup scan stages for deletion never
\* contains the marker file .containerd_layer_snapshots of the short root.
C6_SentinelKept ==
    \A p \in Procs : LocalPath(ShortRoot, Sentinel, "") \notin pc[p].dirs

\* C7 (as stated): for every id in the metadata store exactly one of
\* <root>/snapshots/<id> and /s/l/<id> exists.
C7_Original ==
    \A i \in IDMap(meta) :
        (LocalPath(CanonRoot, IdName(i), "") \in fs)
            # (LocalPath(ShortRoot, IdName(i), "") \in fs)

\* C7 (amended): for every id in the metadata store at most one of
\* <root>/snapshots/<id> and /s/l/<id> exists, and exactly one exists unless
\* the snapshot is a shared Active one whose marker directory could not be
\* created.
C7_OneHome ==
    \A i \in IDMap(meta) :
        /\ ~ (/\ LocalPath(CanonRoot, IdName(i), "") \in fs
              /\ LocalPath(ShortRoot, IdName(i), "") \in fs)
        /\ i \notin markerFailed
             => \/ LocalPath(CanonRoot, IdName(i), "") \in fs
                \/ LocalPath(ShortRoot, IdName(i), "") \in fs

\* a snapshot made before short paths were enabled keeps its home under the
\* canonical root next to a shared Active snapshot whose marker directory is
\* under the short root
C7_Witness ==
    \E k \in Keys, j \in Keys :
        /\ cfg.shortBasePaths
        /\ meta[k].id # 0
        /\ LocalPath(CanonRoot, IdName(meta[k].id), "fs") \in fs
        /\ meta[j].kind = "Active" /\ isSharedSnapshot(meta[j].labels)
        /\ LocalPath(ShortRoot, IdName(meta[j].id), "") \in fs
        /\ LocalPath(ShortRoot, IdName(meta[j].id), "fs") \notin fs

\* C8: when Prepare or View returns an error, the metadata store has no
\* snapshot made by the call, no directory the call created is left on disk
\* (temporary directory, shared fs and work directories, shared base, marker
\* directory), and the path mapping index has no record the call added.
C8_FailureLeavesNothing ==
    [][\A p \in Procs :
         (/\ pc[p].op = "create" /\ pc[p].st = "ret" /\ pc[p].err # ""
          /\ pc'[p].st = "done")
           => /\ pc[p].id # 0 => pc[p].id \notin IDMap(meta')
              /\ pc[p].created \cap fs' = {}
              /\ (pc[p].base # NoPath /\ ~ pc[p].hadRec)
                   => MappingKey(pc[p].base.pod, pc[p].base.name[2])
                          \notin DOMAIN globalMappings']_vars

\* C9: a Prepare or View on a key that is in the metadata store fails in its
\* transaction and changes neither the store nor the filesystem, also when
\* the key was created by a concurrent call that has not returned; a create
\* commits only on a key that is free, so of two concurrent creates of one
\* key at most one succeeds.
C9_DuplicateKeyRejected ==
    [][\A p \in Procs :
         /\ (/\ pc[p].op = "idle" /\ pc'[p].op = "create"
             /\ meta[pc'[p].key].id # 0)
              => /\ pc'[p].err = "failed to create snapshot metadata"
                 /\ pc'[p].st = "ret"
                 /\ fs' = fs /\ meta' = meta /\ nextId' = nextId
                 /\ globalMappings' = globalMappings
                 /\ mappingFiles' = mappingFiles
         /\ (/\ pc[p].op = "create" /\ pc[p].st = "ret"
             /\ pc[p].err = "failed to create snapshot metadata"
             /\ pc'[p].st = "done")
              => /\ fs' = fs /\ meta' = meta /\ nextId' = nextId
                 /\ globalMappings' = globalMappings
                 /\ mappingFiles' = mappingFiles
         /\ (/\ pc[p].op = "create" /\ pc[p].st = "finish"
             /\ pc'[p].st = "ret" /\ pc'[p].err = "")
              => /\ meta[pc[p].key].id = 0
                 /\ meta'[pc[p].key].id = pc[p].id]_vars

\* one caller's create of a key was rejected while the other caller's create
\* of the same key has committed and not yet returned
C9_Witness ==
    \E p \in Procs, q \in Procs :
        /\ p # q
        /\ pc[p].op = "create" /\ pc[p].st \in {"ret", "done"}
        /\ pc[p].err = "failed to create snapshot metadata"
        /\ pc[q].op = "create" /\ pc[q].st = "ret" /\ pc[q].err = ""
        /\ pc[q].key = pc[p].key
        /\ meta[pc[q].key].id = pc[q].id

\* C10: while an Active snapshot prepared under key k is neither committed
\* nor removed (and the snapshotter is the one that prepared it), Mounts(k)
\* succeeds and returns the mount list Prepare returned.
C10_MountsAsPrepared ==
    \A k \in Keys :
        prepared[k] # <<>>
          => /\ MountsErr(meta, k) = ""
             /\ MountsResult(k) = prepared[k]

\* a Prepare with the shared-storage labels on a committed parent has
\* returned an overlay whose upperdir is on the shared disk
C10_Witness ==
    \E k \in Keys :
        /\ prepared[k] # <<>>
        /\ \A p \in Procs : pc[p].op = "idle"
        /\ isSharedSnapshot(meta[k].labels)
        /\ meta[k].parent # ""
        /\ prepared[k][1].Type = "overlay"
        /\ \E i \in 1..Len(prepared[k][1].Options) :
             /\ prepared[k][1].Options[i].k = "upperdir"
             /\ prepared[k][1].Options[i].v[1].root = "shared"

\* C11: Mounts(k) has no side effects: for every key Mounts accepts, the
\* path mapping index and the .path-mappings.json files after the call are
\* the ones before it (the call touches neither the metadata store nor a
\* directory), also when k carries the shared-storage labels.
C11_MountsPure ==
    \A k \in Keys :
        MountsErr(meta, k) = ""
          => mountsReg(Index, fs, GetSnapshot(meta, k), meta[k].labels) = Index

\* C12: when Commit(n, k) of an Active snapshot succeeds, Stat(n) reports
\* kind Committed, Usage(n) succeeds and returns the disk usage of the
\* snapshot's fs directory as it was when Commit ran, and k is no longer an
\* Active snapshot; afterwards no step, whatever it does to the filesystem,
\* changes what Usage(n) returns while n stays in the store.
C12_CommittedUsage ==
    [][/\ \A n \in Keys, k \in Keys :
            (/\ meta[k].kind = "Active" /\ meta[n].id = 0
             /\ meta'[n].kind = "Committed" /\ meta'[n].id = meta[k].id)
              => /\ Stat(meta', n).Kind = "Committed"
                 /\ UsageErr(cfg', meta', fs', n) = ""
                 /\ Usage(cfg', meta', fs', n)
                      = DiskUsage(fs, determineUpperPath(cfg, meta[k].id,
                                                         meta[k].labels).path)
                 /\ meta'[k].kind # "Active"
       /\ \A n \in Keys :
            (meta[n].kind = "Committed" /\ meta'[n].id = meta[n].id)
              => /\ Stat(meta', n).Kind = "Committed"
                 /\ UsageErr(cfg', meta', fs', n) = ""
                 /\ Usage(cfg', meta', fs', n) = Usage(cfg, meta, fs, n)]_vars

\* a snapshot was committed with data in its fs directory, the data has been
\* deleted since, and Usage still returns the usage measured at commit
C12_Witness ==
    \E n \in Keys :
        /\ meta[n].kind = "Committed"
        /\ meta[n].labels = EmptyLabels
        /\ getSnapshotFSPath(cfg, meta[n].id) \in fs
        /\ DiskUsage(fs, getSnapshotFSPath(cfg, meta[n].id)) = 0
        /\ Usage(cfg, meta, fs, n) = 1

C14_CommittedFsExists ==
    \A n \in Keys :
        meta[n].kind = "Committed"
          => /\ determineUpperPath(cfg, meta[n].id, meta[n].labels).err = ""
             /\ determineUpperPath(cfg, meta[n].id, meta[n].labels).path \in fs
             /\ parentFSPath(cfg, fs, meta[n].id) \in fs

\* C15: with short paths enabled, the upper and work paths the resolver
\* reports for a snapshot without the shared-storage labels are below
\* /s/l/<id> if that directory exists, else below <root>/snapshots/<id> if
\* that exists, else below /s/l/<id>; the resolution never fails.
C15_ResolverFallback ==
    cfg.shortBasePaths
      => \A k \in Keys :
           (meta[k].id # 0 /\ ~ isSharedSnapshot(meta[k].labels))
             => LET short == LocalPath(ShortRoot, IdName(meta[k].id), "")
                    canon == LocalPath(CanonRoot, IdName(meta[k].id), "")
                    home == IF short \in fs THEN short
                            ELSE IF canon \in fs THEN canon ELSE short
                    upper == determineUpperPath(cfg, meta[k].id, meta[k].labels)
                    work == determineWorkPath(cfg, meta[k].id, meta[k].labels)
                IN /\ upper.err = "" /\ upper.path = Join(home, "fs")
                   /\ work.err = "" /\ work.path = Join(home, "work")

\* C16: a Prepare whose labels set use-shared-storage to "true" but lack one
\* of shared-disk-path, k8s-namespace, k8s-pod-name, k8s-container-name never
\* gets past getSharedPathBase: it fails with the missing-labels error, and
\* neither the failing step nor the return changes the metadata store or the
\* filesystem; when it fails the store has no snapshot for the key, no
\* snapshot with its id is ever in the store and it has created no directory.
C16_MissingLabelsRejected ==
    [][\A p \in Procs :
         (/\ pc'[p].op = "create" /\ pc'[p].kind = "Active"
          /\ isSharedSnapshot(pc'[p].labels)
          /\ ~ (RequiredKeys \subseteq DOMAIN pc'[p].labels)
          /\ pc'[p].st \in {"finish", "ret", "done"}
          /\ pc[p].st # pc'[p].st)
           => /\ pc'[p].err = "cannot determine shared path for snapshot"
              /\ getSharedPathBaseErr(pc'[p].labels, pc'[p].id)
                   = "missing one or more required labels for shared storage path"
              /\ fs' = fs /\ meta' = meta /\ nextId' = nextId
              /\ pc[p].st = "dirs" => meta'[pc'[p].key] = NoSnap
              /\ pc'[p].id \notin IDMap(meta')
              /\ pc'[p].created = {}
              /\ pc'[p].base = NoPath]_vars

\* a Prepare without the k8s-namespace label has returned its error
C16_Witness ==
    \E p \in Procs :
        /\ pc[p].op = "create" /\ pc[p].kind = "Active" /\ pc[p].st = "done"
        /\ pc[p].labels = MissingLabel(LabelK8sNamespace)
        /\ pc[p].err = "cannot determine shared path for snapshot"
        /\ meta[pc[p].key] = NoSnap
        /\ fs = {}

\* C17: a create resolves a shared base only if use-shared-storage is
\* exactly "true", the four labels shared-disk-path, k8s-namespace,
\* k8s-pod-name and k8s-container-name are present and not empty and the id
\* is not empty; a directory is on a shared disk only if such a create made
\* it.
C17_SharedOnlyIfComplete ==
    /\ \A p \in Procs :
         (pc[p].op = "create" /\ pc[p].base # NoPath)
           => /\ Label(pc[p].labels, LabelUseSharedStorage) = "true"
              /\ \A k \in RequiredKeys : Label(pc[p].labels, k) # ""
              /\ pc[p].id # 0
    /\ \A d \in SharedDirs(fs) : d.disk # ""

\* C18: whenever Mounts of a snapshot with parents returns a mount list,
\* and whenever a Prepare or View with a parent has returned one, the fs
\* directory the list names for every parent (each lowerdir entry, or the
\* source of the bind mount of a single-parent View) exists; a parent whose
\* fs directory is in neither root makes the call fail instead.
C18_MissingParentIsError ==
    /\ \A k \in Keys :
         (MountsErr(meta, k) = "" /\ meta[k].parent # "")
           => \A i \in 1..Len(GetSnapshot(meta, k).ParentIDs) :
                parentFSPath(cfg, fs, GetSnapshot(meta, k).ParentIDs[i]) \in fs
    /\ \A p \in Procs :
         (/\ pc[p].op = "create" /\ pc[p].st = "done" /\ pc[p].err = ""
          /\ Len(pc[p].parents) > 0)
           => \A i \in 1..Len(pc[p].parents) :
                /\ LocalPath(CanonRoot, IdName(pc[p].parents[i]), "fs") \in fs
                   \/ LocalPath(ShortRoot, IdName(pc[p].parents[i]), "fs") \in fs
                /\ pc[p].kind = "Active"
                     => \E o \in 1..Len(pc[p].ret[1].Options) :
                          /\ pc[p].ret[1].Options[o].k = "lowerdir"
                          /\ pc[p].ret[1].Options[o].v[i] \in fs

\* C19: a Prepare or View of a child whose nearest parent has its fs
\* directory in either root does not fail on the parent lookup, and fails
\* only if the metadata store refuses it; the mount list it returns, and
\* the mount list Mounts returns in every state reached, names for each
\* parent the fs directory under the configured root if that exists and
\* else the one under the other root, so that with short paths enabled a
\* parent still under <root>/snapshots is named there, a parent moved to
\* /s/l is named there from the next Mounts on, and every parent directory
\* that exists in one of the two roots is named where it exists.
C19_ParentFollowsMove ==
    [][LET conf(id) == LocalPath(getSnapshotsRoot(cfg'), IdName(id), "fs")
           opp(id) == LocalPath(OppositeRoot(cfg'), IdName(id), "fs")
           Named(ml, i) ==
               IF ml[1].Type = "bind" THEN ml[1].Source
               ELSE LET o == CHOOSE o \in 1..Len(ml[1].Options) :
                                 ml[1].Options[o].k = "lowerdir"
                    IN ml[1].Options[o].v[i]
           Right(ml, ids) ==
               /\ ml[1].Type = "overlay"
                    => \E o \in 1..Len(ml[1].Options) :
                         /\ ml[1].Options[o].k = "lowerdir"
                         /\ Len(ml[1].Options[o].v) = Len(ids)
               /\ \A i \in 1..Len(ids) :
                    /\ conf(ids[i]) \in fs' => Named(ml, i) = conf(ids[i])
                    /\ (conf(ids[i]) \notin fs' /\ opp(ids[i]) \in fs')
                         => Named(ml, i) = opp(ids[i])
                    /\ (conf(ids[i]) \in fs' \/ opp(ids[i]) \in fs')
                         => Named(ml, i) \in fs'
       IN /\ \A p \in Procs :
               /\ (/\ pc[p].op = "idle" /\ pc'[p].op = "create"
                   /\ pc'[p].parent # ""
                   /\ meta[pc'[p].parent].kind = "Committed"
                   /\ \/ conf(meta[pc'[p].parent].id) \in fs
                      \/ opp(meta[pc'[p].parent].id) \in fs)
                    => pc'[p].err \in {"", "failed to create snapshot metadata"}
               /\ (/\ pc[p].op = "create" /\ pc[p].st = "ret"
                   /\ pc'[p].st = "done" /\ pc'[p].parent # "")
                    => /\ pc'[p].err \in {"", "failed to create snapshot metadata"}
                       /\ pc'[p].err = "" => Right(pc'[p].ret, pc'[p].parents)
          /\ \A k \in Keys :
               (MountsErr(meta', k) = "" /\ meta'[k].parent # "")
                 => Right(mounts(cfg', fs', GetSnapshot(meta', k), meta'[k].labels),
                          GetSnapshot(meta', k).ParentIDs)]_vars

\* with short paths enabled, the Prepare of "a" on a parent still under
\* <root>/snapshots returned the canonical path in lowerdir, the parent has
\* since been moved, and Mounts of "a" now names /s/l/<parent>/fs, which
\* exists
C19_Witness ==
    /\ cfg.shortBasePaths
    /\ meta["a"].kind = "Active" /\ meta["a"].parent = "base"
    /\ prepared["a"] # <<>>
    /\ \E o \in 1..Len(prepared["a"][1].Options) :
         /\ prepared["a"][1].Options[o].k = "lowerdir"
         /\ prepared["a"][1].Options[o].v
              = <<LocalPath(CanonRoot, IdName(meta["base"].id), "fs")>>
    /\ \E o \in 1..Len(MountsResult("a")[1].Options) :
         /\ MountsResult("a")[1].Options[o].k = "lowerdir"
         /\ MountsResult("a")[1].Options[o].v
              = <<LocalPath(ShortRoot, IdName(meta["base"].id), "fs")>>
    /\ LocalPath(ShortRoot, IdName(meta["base"].id), "fs") \in fs
    /\ LocalPath(CanonRoot, IdName(meta["base"].id), "fs") \notin fs

\* C20 as stated: in the option list of every overlay mount, returned by
\* Mounts or by a Prepare or View, the engine-configured options come
\* first, then uidmap and gidmap, then lowerdir, then upperdir and workdir.
C20_Original ==
    LET Rank(k) == CASE k = "index=off" -> 1
                     [] k = "uidmap" -> 2
                     [] k = "gidmap" -> 3
                     [] k = "lowerdir" -> 4
                     [] k = "upperdir" -> 5
                     [] k = "workdir" -> 6
                     [] OTHER -> 7
        Ordered(ml) ==
            ml[1].Type = "overlay"
              => \A i, j \in 1..Len(ml[1].Options) :
                   i < j => Rank(ml[1].Options[i].k) < Rank(ml[1].Options[j].k)
    IN /\ \A k \in Keys : MountsErr(meta, k) = "" => Ordered(MountsResult(k))
       /\ \A p \in Procs :
            (pc[p].op = "create" /\ pc[p].st = "done" /\ pc[p].err = "")
              => Ordered(pc[p].ret)

\* C20: the option list of every overlay mount, returned by Mounts or by a
\* Prepare or View, is exactly: uidmap if remapping is enabled and the
\* snapshot has the uid mapping label, gidmap likewise, then for an Active
\* snapshot workdir and upperdir, then lowerdir, then the engine-configured
\* options; every bind mount has uidmap and gidmap in the same way, then
\* rw or ro, then rbind, and no engine-configured option.
C20_OptionOrder ==
    LET KeysOf(ml) == [i \in 1..Len(ml[1].Options) |-> ml[1].Options[i].k]
        IDKeys(labels) ==
            (IF cfg.remapIDs /\ LabelSnapshotUIDMapping \in DOMAIN labels
             THEN <<"uidmap">> ELSE <<>>)
            \o (IF cfg.remapIDs /\ LabelSnapshotGIDMapping \in DOMAIN labels
                THEN <<"gidmap">> ELSE <<>>)
        Engine == [i \in 1..Len(MountOptions) |-> MountOptions[i].k]
        Stable(ml, kind, labels) ==
            /\ Len(ml) = 1
            /\ ml[1].Type = "overlay"
                 => KeysOf(ml) = IDKeys(labels)
                       \o (IF kind = "Active" THEN <<"workdir", "upperdir">>
                           ELSE <<>>)
                       \o <<"lowerdir">> \o Engine
            /\ ml[1].Type = "bind"
                 => KeysOf(ml) = IDKeys(labels)
                       \o <<IF kind = "View" THEN "ro" ELSE "rw", "rbind">>
    IN /\ \A k \in Keys :
            MountsErr(meta, k) = ""
              => Stable(MountsResult(k), meta[k].kind, meta[k].labels)
       /\ \A p \in Procs :
            (pc[p].op = "create" /\ pc[p].st = "done" /\ pc[p].err = "")
              => Stable(pc[p].ret, pc[p].kind, pc[p].labels)

\* with remapping enabled, Mounts of an Active snapshot that has a parent
\* and both mapping labels returns an overlay mount with all six options
C20_Witness ==
    /\ cfg.remapIDs
    /\ meta["a"].kind = "Active" /\ meta["a"].parent # ""
    /\ meta["a"].labels = IDMapLabels(GoodIDMap)
    /\ MountsResult("a")[1].Type = "overlay"
    /\ [i \in 1..Len(MountsResult("a")[1].Options) |->
            MountsResult("a")[1].Options[i].k]
         = <<"uidmap", "gidmap", "workdir", "upperdir", "lowerdir", "index=off">>

\* C21: for a snapshot without parents, Mounts and a successful Prepare or
\* View return exactly one mount, of type bind; its source is the upper
\* path of the snapshot itself: <disk>/<pod_hash>/<snapshot_hash>/fs when
\* the labels place it on shared storage, else <snapshots root>/<id>/fs
\* under the configured root (<root>/snapshots/<id>/fs with short paths
\* disabled); its options end with rw for an Active snapshot and ro for a
\* View, then rbind, and none of them is an engine-configured option.
C21_NoParentBind ==
    LET Engine == {MountOptions[i].k : i \in 1..Len(MountOptions)}
        Own(id, labels) ==
            IF /\ Label(labels, LabelUseSharedStorage) = "true"
               /\ RequiredKeys \subseteq DOMAIN labels
            THEN SharedPath(labels[LabelSharedDiskPath],
                            hashString(PodIdentifier(labels)),
                            hashString(id), "fs")
            ELSE LocalPath(IF cfg.shortBasePaths THEN ShortRoot ELSE CanonRoot,
                           IdName(id), "fs")
        Bind(ml, kind, id, labels) ==
            /\ Len(ml) = 1
            /\ ml[1].Type = "bind"
            /\ ml[1].Source = Own(id, labels)
            /\ Len(ml[1].Options) >= 2
            /\ ml[1].Options[Len(ml[1].Options) - 1].k
                 = (IF kind = "View" THEN "ro" ELSE "rw")
            /\ ml[1].Options[Len(ml[1].Options)].k = "rbind"
            /\ \A i \in 1..Len(ml[1].Options) :
                 /\ ml[1].Options[i].k \notin Engine
                 /\ ml[1].Options[i].k
                      # (IF kind = "View" THEN "rw" ELSE "ro")
    IN /\ \A k \in Keys :
            (MountsErr(meta, k) = "" /\ meta[k].parent = "")
              => Bind(MountsResult(k), meta[k].kind, meta[k].id, meta[k].labels)
       /\ \A p \in Procs :
            (/\ pc[p].op = "create" /\ pc[p].st = "done" /\ pc[p].err = ""
             /\ pc[p].parent = "")
              => Bind(pc[p].ret, pc[p].kind, pc[p].id, pc[p].labels)

\* with short paths disabled, Prepare("a", "") without labels has returned
\* the bind mount of <root>/snapshots/<id>/fs with rw and rbind, and Mounts
\* of "a" returns the same
C21_Witness ==
    /\ ~ cfg.shortBasePaths
    /\ pc[1].op = "create" /\ pc[1].st = "done" /\ pc[1].err = ""
    /\ pc[1].key = "a" /\ pc[1].kind = "Active" /\ pc[1].parent = ""
    /\ meta["a"].id = pc[1].id /\ meta["a"].labels = EmptyLabels
    /\ pc[1].ret = <<[Type |-> "bind",
                      Source |-> LocalPath(CanonRoot, IdName(pc[1].id), "fs"),
                      Options |-> <<Opt("rw"), Opt("rbind")>>]>>
    /\ MountsResult("a") = pc[1].ret
    /\ pc[1].ret[1].Source \in fs

\* C22: for a View with exactly one parent, Mounts and a successful View
\* return exactly one mount, of type bind and never overlay; its source is
\* the fs directory of the parent, <snapshots root>/<parent id>/fs under the
\* root where it exists when Mounts is called, and never a directory of
\* the View itself; its options end with ro and rbind and contain neither rw nor an
\* engine-configured option, whatever labels the View carries.
C22_SingleParentViewBind ==
    LET Engine == {MountOptions[i].k : i \in 1..Len(MountOptions)}
        Fs(root, id) == LocalPath(root, IdName(id), "fs")
        BindParent(ml, id, labels, pid, now) ==
            /\ Len(ml) = 1
            /\ ml[1].Type = "bind"
            /\ ml[1].Source \in {Fs(CanonRoot, pid), Fs(ShortRoot, pid)}
            /\ (now /\ (Fs(CanonRoot, pid) \in fs \/ Fs(ShortRoot, pid) \in fs))
                 => ml[1].Source \in fs
            /\ ml[1].Source \notin {Fs(CanonRoot, id), Fs(ShortRoot, id)}
            /\ ml[1].Source.root # "shared"
            /\ Len(ml[1].Options) >= 2
            /\ ml[1].Options[Len(ml[1].Options) - 1].k = "ro"
            /\ ml[1].Options[Len(ml[1].Options)].k = "rbind"
            /\ \A i \in 1..Len(ml[1].Options) :
                 ml[1].Options[i].k \notin Engine \cup {"rw", "lowerdir"}
    IN /\ \A k \in Keys :
            (/\ MountsErr(meta, k) = "" /\ meta[k].kind = "View"
             /\ Len(GetSnapshot(meta, k).ParentIDs) = 1)
              => BindParent(MountsResult(k), meta[k].id, meta[k].labels,
                            GetSnapshot(meta, k).ParentIDs[1], TRUE)
       /\ \A p \in Procs :
            (/\ pc[p].op = "create" /\ pc[p].st = "done" /\ pc[p].err = ""
             /\ pc[p].kind = "View" /\ Len(pc[p].parents) = 1)
              => BindParent(pc[p].ret, pc[p].id, pc[p].labels, pc[p].parents[1],
                            FALSE)

\* View("a", "base") with the shared-storage labels has returned the bind
\* mount of the fs directory of "base", which exists, with ro and rbind
C22_Witness ==
    /\ pc[1].op = "create" /\ pc[1].st = "done" /\ pc[1].err = ""
    /\ pc[1].key = "a" /\ pc[1].kind = "View" /\ pc[1].parent = "base"
    /\ meta["a"].id = pc[1].id /\ meta["base"].kind = "Committed"
    /\ isSharedSnapshot(pc[1].labels)
    /\ pc[1].ret = <<[Type |-> "bind",
                      Source |-> getSnapshotFSPath(cfg, meta["base"].id),
                      Options |-> <<Opt("ro"), Opt("rbind")>>]>>
    /\ MountsResult("a") = pc[1].ret
    /\ pc[1].ret[1].Source \in fs

\* C23: for an Active snapshot with a parent and for a View with two or
\* more parents, Mounts and a successful Prepare or View return exactly one
\* mount, of type overlay with source overlay.  The Active mount has exactly
\* one upperdir and one workdir option, naming the fs and the work directory
\* of the snapshot itself (below its shared base when its labels place it on
\* shared storage, else below <snapshots root>/<id> under the configured
\* root); the View mount has neither.  Both have exactly one lowerdir.
C23_OverlayShape ==
    LET Own(id, labels, sub) ==
            IF /\ Label(labels, LabelUseSharedStorage) = "true"
               /\ RequiredKeys \subseteq DOMAIN labels
            THEN SharedPath(labels[LabelSharedDiskPath],
                            hashString(PodIdentifier(labels)),
                            hashString(id), sub)
            ELSE LocalPath(IF cfg.shortBasePaths THEN ShortRoot ELSE CanonRoot,
                           IdName(id), sub)
        At(ml, key) == {i \in 1..Len(ml[1].Options) : ml[1].Options[i].k = key}
        Overlay(ml, kind, id, labels) ==
            /\ Len(ml) = 1
            /\ ml[1].Type = "overlay"
            /\ ml[1].Source = OverlaySource
            /\ Cardinality(At(ml, "lowerdir")) = 1
            /\ \A i \in 1..Len(ml[1].Options) :
                 ml[1].Options[i].k \notin {"rw", "ro", "rbind"}
            /\ IF kind = "Active"
               THEN /\ Cardinality(At(ml, "upperdir")) = 1
                    /\ Cardinality(At(ml, "workdir")) = 1
                    /\ \A i \in At(ml, "upperdir") :
                         ml[1].Options[i].v = <<Own(id, labels, "fs")>>
                    /\ \A i \in At(ml, "workdir") :
                         ml[1].Options[i].v = <<Own(id, labels, "work")>>
               ELSE At(ml, "upperdir") = {} /\ At(ml, "workdir") = {}
        Case(kind, n) == \/ kind = "Active" /\ n >= 1
                         \/ kind = "View" /\ n >= 2
    IN /\ \A k \in Keys :
            (/\ MountsErr(meta, k) = ""
             /\ Case(meta[k].kind, Len(GetSnapshot(meta, k).ParentIDs)))
              => Overlay(MountsResult(k), meta[k].kind, meta[k].id, meta[k].labels)
       /\ \A p \in Procs :
            (/\ pc[p].op = "create" /\ pc[p].st = "done" /\ pc[p].err = ""
             /\ Case(pc[p].kind, Len(pc[p].parents)))
              => Overlay(pc[p].ret, pc[p].kind, pc[p].id, pc[p].labels)

\* Prepare of "a" on a chain of two committed parents has returned an
\* overlay mount whose upperdir and workdir are the directories it made,
\* and Mounts of "a" returns the same
C23_Witness ==
    /\ pc[1].op = "create" /\ pc[1].st = "done" /\ pc[1].err = ""
    /\ pc[1].key = "a" /\ pc[1].kind = "Active" /\ Len(pc[1].parents) = 2
    /\ meta["a"].id = pc[1].id
    /\ pc[1].ret[1].Type = "overlay"
    /\ \E i, j \in 1..Len(pc[1].ret[1].Options) :
         /\ pc[1].ret[1].Options[i].k = "upperdir"
         /\ pc[1].ret[1].Options[i].v = <<getSnapshotFSPath(cfg, pc[1].id)>>
         /\ pc[1].ret[1].Options[j].k = "workdir"
         /\ pc[1].ret[1].Options[j].v = <<getSnapshotWorkPath(cfg, pc[1].id)>>
         /\ getSnapshotFSPath(cfg, pc[1].id) \in fs
         /\ getSnapshotWorkPath(cfg, pc[1].id) \in fs
    /\ MountsResult("a") = pc[1].ret

\* C24: when a Prepare of an Active snapshot whose labels carry
\* use-shared-storage = "true" and the four identity labels returns without
\* error, <shared_disk_path>/<pod_hash>/<snapshot_hash>/fs and .../work
\* exist; the mount it returns names exactly those two as upperdir and
\* workdir (as the bind source, when the snapshot has no parent) and names
\* no directory of the local home; and the path mapping index, and the
\* .path-mappings.json of that disk, hold under <pod_hash>/<snapshot_hash>
\* a record with the namespace, pod name, container name and id of the
\* snapshot.
C24_SharedPrepare ==
    [][\A p \in Procs :
         (/\ pc[p].op = "create" /\ pc[p].st = "ret" /\ pc'[p].st = "done"
          /\ pc'[p].err = "" /\ pc'[p].kind = "Active"
          /\ Label(pc'[p].labels, LabelUseSharedStorage) = "true"
          /\ RequiredKeys \subseteq DOMAIN pc'[p].labels)
           => LET r == pc'[p]
                  disk == r.labels[LabelSharedDiskPath]
                  podHash == hashString(PodIdentifier(r.labels))
                  snapshotHash == hashString(r.id)
                  upper == SharedPath(disk, podHash, snapshotHash, "fs")
                  work == SharedPath(disk, podHash, snapshotHash, "work")
                  key == MappingKey(podHash, snapshotHash)
                  rec == [PodHash |-> podHash, SnapshotHash |-> snapshotHash,
                          Namespace |-> r.labels[LabelK8sNamespace],
                          PodName |-> r.labels[LabelK8sPodName],
                          ContainerName |-> r.labels[LabelK8sContainerName],
                          SnapshotID |-> r.id]
                  m == r.ret[1]
              IN /\ upper \in fs' /\ work \in fs'
                 /\ Len(r.ret) = 1
                 /\ IF m.Type = "bind" THEN m.Source = upper
                    ELSE \A i \in 1..Len(m.Options) :
                           /\ m.Options[i].k = "upperdir"
                                => m.Options[i].v = <<upper>>
                           /\ m.Options[i].k = "workdir"
                                => m.Options[i].v = <<work>>
                 /\ m.Type = "overlay"
                      => \E i, j \in 1..Len(m.Options) :
                           /\ m.Options[i].k = "upperdir"
                           /\ m.Options[j].k = "workdir"
                 /\ key \in DOMAIN globalMappings'
                 /\ globalMappings'[key] = rec
                 /\ mappingFiles'[disk].present
                 /\ \E i \in 1..Len(mappingFiles'[disk].entries) :
                      mappingFiles'[disk].entries[i] = rec]_vars

\* Prepare("a", "base") with the shared-storage labels for /shared/nb has
\* returned an overlay mount; its upperdir and workdir are on the shared
\* disk and exist, and the index holds the record of the snapshot
C24_Witness ==
    /\ pc[1].op = "create" /\ pc[1].st = "done" /\ pc[1].err = ""
    /\ pc[1].key = "a" /\ pc[1].kind = "Active" /\ pc[1].parent = "base"
    /\ pc[1].labels = SharedLabels(ExternalDisk)
    /\ pc[1].ret[1].Type = "overlay"
    /\ \E i, j \in 1..Len(pc[1].ret[1].Options) :
         /\ pc[1].ret[1].Options[i].k = "upperdir"
         /\ pc[1].ret[1].Options[i].v = <<Join(pc[1].base, "fs")>>
         /\ pc[1].ret[1].Options[j].k = "workdir"
         /\ pc[1].ret[1].Options[j].v = <<Join(pc[1].base, "work")>>
    /\ pc[1].base.root = "shared" /\ pc[1].base.disk = ExternalDisk
    /\ Join(pc[1].base, "fs") \in fs /\ Join(pc[1].base, "work") \in fs
    /\ \E k \in DOMAIN globalMappings : globalMappings[k].SnapshotID = pc[1].id

\* C25: with asynchronous removal no step of Remove changes the disk, and
\* the home directory of a snapshot disappears only in the deletion step of
\* a Cleanup; when a Cleanup that ran alone returns, no home of an id that is
\* not in the metadata store is left under the configured snapshots root.
\* As soon as the transaction of Remove(k) has committed, with the old home
\* still on disk, the store has no snapshot for k and a Prepare or View of
\* k is accepted; without a failing system call a create commits under a
\* new id with a home of its own that exists and is none of the
\* directories already on disk, and it removes none of them.
C25_AsyncRemove ==
    [][cfg.asyncRemove =>
         LET Homes(F) == {d \in F : d.root \in {CanonRoot, ShortRoot}
                                      /\ d.sub = "" /\ d.name[1] = "id"}
         IN /\ \A p \in Procs :
                 (pc[p].op = "remove" /\ pc[p].st # pc'[p].st) => fs' = fs
            /\ Homes(fs) \ Homes(fs') # {}
                 => \E p \in Procs : /\ pc[p].op = "cleanup" /\ pc[p].st = "delete"
                                     /\ pc'[p].st = "done"
            /\ \A p \in Procs :
                 (/\ pc[p].op = "cleanup" /\ pc[p].st = "delete"
                  /\ pc'[p].st = "done" /\ pc[p].alone /\ Quiet(p))
                   => \A d \in Homes(fs') :
                        d.root = getSnapshotsRoot(cfg) => d.name[2] \in IDMap(meta)
            /\ \A p \in Procs :
                 (/\ pc[p].op = "remove" /\ pc[p].st = "meta"
                  /\ pc'[p].st = "delete")
                   => /\ meta'[pc[p].key] = NoSnap
                      /\ \A kind \in {"Active", "View"} :
                           createPreErr(kind, pc[p].key, "", EmptyLabels)' = ""
            /\ \A p \in Procs :
                 (/\ pc[p].op = "create" /\ pc[p].st = "finish"
                  /\ pc'[p].st = "ret" /\ env.faults = {})
                   => /\ pc'[p].err = ""
                      /\ meta'[pc[p].key].id = pc[p].id
                      /\ pc[p].id \notin IDMap(meta)
                      /\ getSnapshotPath(cfg, pc[p].id) \notin Homes(fs)
                      /\ getSnapshotPath(cfg, pc[p].id) \in Homes(fs')
                      /\ Homes(fs) \subseteq Homes(fs')]_vars

\* with asynchronous removal, "a" was prepared and removed and its home is
\* still on disk under an id the store no longer has; Prepare("a", "") has
\* succeeded again, under a new id with a home of its own
C25_Witness ==
    /\ cfg.asyncRemove
    /\ pc[1].op = "create" /\ pc[1].st = "done" /\ pc[1].err = ""
    /\ pc[1].key = "a" /\ pc[1].kind = "Active"
    /\ meta["a"].id = pc[1].id
    /\ getSnapshotPath(cfg, pc[1].id) \in fs
    /\ \E i \in 1..MaxId :
         /\ i # pc[1].id /\ i \notin IDMap(meta)
         /\ getSnapshotPath(cfg, i) \in fs
         /\ Join(getSnapshotPath(cfg, i), "work") \in fs

C27_RegisterThenLookup ==
    [][\A p \in Procs :
         (/\ pc[p].op = "create" /\ pc[p].st = "dirs"
          /\ pc'[p].st = "finish" /\ pc'[p].base # NoPath)
           => LET r == pc'[p]
                  found == LookupPathMapping(globalMappings', r.base.pod,
                                             r.base.name[2])
              IN /\ found.ok
                 /\ found.mapping =
                      <<[PodHash |-> r.base.pod, SnapshotHash |-> r.base.name[2],
                         Namespace |-> Label(r.labels, LabelK8sNamespace),
                         PodName |-> Label(r.labels, LabelK8sPodName),
                         ContainerName |-> Label(r.labels, LabelK8sContainerName),
                         SnapshotID |-> r.id]>>]_vars

\* C28: no two snapshots in the store that are both Active and both carry
\* the shared-storage labels resolve to the same upper directory.
C28_NoSharedMerge ==
    \A k1, k2 \in Keys :
        (/\ k1 # k2
         /\ meta[k1].kind = "Active" /\ meta[k2].kind = "Active"
         /\ isSharedSnapshot(meta[k1].labels) /\ isSharedSnapshot(meta[k2].labels)
         /\ determineUpperPath(cfg, meta[k1].id, meta[k1].labels).err = ""
         /\ determineUpperPath(cfg, meta[k2].id, meta[k2].labels).err = "")
          => determineUpperPath(cfg, meta[k1].id, meta[k1].labels).path
               # determineUpperPath(cfg, meta[k2].id, meta[k2].labels).path

\* C29: when the snapshotter is constructed with short paths enabled on a
\* disk that was used with short paths disabled, every snapshot directory
\* that was under <root>/snapshots/<id> is under /s/l/<id> afterwards, with
\* all it held, and is no longer under <root>/snapshots.
C29_MigratedAtConstruction ==
    [][(~ cfg.shortBasePaths /\ cfg'.shortBasePaths)
         => \A d \in fs :
              (d.root = CanonRoot /\ d.name[1] = "id")
                => /\ d \notin fs'
                   /\ [d EXCEPT !.root = ShortRoot] \in fs']_vars

\* ------------------------------------------------- Stat, Update and Walk
MaxStatId == 2

upperdirKey == "containerd.io/snapshot/overlay.upperdir"

\* the snapshotter built with WithUpperdirLabel (on) or without it
WithUpperdirLabel(c, on) ==
    [shortBasePaths |-> c.shortBasePaths, asyncRemove |-> c.asyncRemove,
     remapIDs |-> c.remapIDs, upperdirLabel |-> on]

\* the label taken from the home directory whatever the labels say
upperdirLabelsHomeOnly(c, id, labels) ==
    IF c.upperdirLabel THEN [k \in {upperdirKey} |-> getSnapshotFSPath(c, id)]
    ELSE [k \in {} |-> NoPath]

\* the labels Stat, Update and Walk add to the info of the store: their
\* values are paths, the key is absent when upperdirLabel is off
upperdirLabels(c, id, labels) ==
    LET upper == determineUpperPath(c, id, labels)
        upperPathValue == IF upper.err # "" THEN getSnapshotFSPath(c, id)
                          ELSE upper.path
    IN IF c.upperdirLabel THEN [k \in {upperdirKey} |-> upperPathValue]
       ELSE [k \in {} |-> NoPath]

\* Stat(key) of a snapshot of the store
StatInfo(c, m, key) ==
    [Name |-> key, Kind |-> m[key].kind, Labels |-> m[key].labels,
     PathLabels |-> upperdirLabels(c, m[key].id, m[key].labels)]

\* the infos Walk hands to its callback, one for each snapshot of the store
WalkInfos(c, m) == {StatInfo(c, m, key) : key \in {k \in Keys : m[k].id # 0}}

\* the info Update(key, labels) returns
UpdateInfo(c, m, key, labels) ==
    [Name |-> key, Kind |-> m[key].kind, Labels |-> labels,
     PathLabels |-> upperdirLabels(c, m[key].id, labels)]

\* Update(info): storage.UpdateInfo replaces the labels of the snapshot
Update(key, labels) ==
    /\ wlock = 0
    /\ meta[key].id # 0
    /\ meta' = [meta EXCEPT ![key].labels = labels]
    /\ pc' = Disturb
    /\ UNCHANGED <<cfg, nextId, wlock, fs, globalMappings, mappingFiles,
                   prepared, markerFailed, env>>

\* the labels given to Prepare, View and Update: none, all the shared-storage
\* labels, and the shared-storage labels without the pod name
StatLabels ==
    {EmptyLabels, SharedLabels(ExternalDisk), MissingLabel(LabelK8sPodName)}

InitStat ==
    InitWith({WithUpperdirLabel(Cfg(short, TRUE, FALSE), on) :
                 short \in BOOLEAN, on \in BOOLEAN},
             {EmptyDisk}, [faults |-> {}, idCap |-> MaxStatId])

NextStat ==
    \/ \E kind \in {"Active", "View"}, parent \in {"base", ""},
          opts \in StatLabels :
            CreateBegin(1, kind, "a", parent, opts)
    \/ CreateDirs(1)
    \/ CreateFinish(1)
    \/ CreateReturn(1)
    \/ Commit("base", "a", EmptyLabels)
    \/ \E labels \in StatLabels : Update("a", labels)
    \/ \E key \in {"a", "base"} : Mounts(key)
    \/ RemovePre(1, "a")
    \/ RemoveMeta(1)
    \/ RemoveDelete(1)
    \/ Return(1)

SpecStat == InitStat /\ [][NextStat]_vars

\* C30 as stated: with the upperdir-label feature enabled, the
\* overlay.upperdir label of the info returned by Stat(k), returned by
\* Update and handed to the Walk callback is the upper path the resolver
\* gives for the snapshot; when the resolver fails it is
\* <root>/snapshots/<id>/fs; with the feature disabled no such label is added.
C30_Original ==
    LET Resolves(labels) ==
            Label(labels, LabelUseSharedStorage) = "true"
              => RequiredKeys \subseteq DOMAIN labels
        Want(id, labels) ==
            IF ~ cfg.upperdirLabel THEN [x \in {} |-> NoPath]
            ELSE [x \in {upperdirKey} |->
                    IF Resolves(labels)
                    THEN determineUpperPath(cfg, id, labels).path
                    ELSE LocalPath(CanonRoot, IdName(id), "fs")]
    IN \A k \in Keys :
         meta[k].id # 0
           => /\ StatInfo(cfg, meta, k).PathLabels = Want(meta[k].id, meta[k].labels)
              /\ \A i \in WalkInfos(cfg, meta) :
                   i.Name = k => i.PathLabels = Want(meta[k].id, meta[k].labels)
              /\ \A l \in LabelVariants :
                   UpdateInfo(cfg, meta, k, l).PathLabels = Want(meta[k].id, l)

\* C30 as the code has it: with the upperdir-label feature enabled, the
\* overlay.upperdir label of the info returned by Stat(k), returned by
\* Update and handed to the Walk callback is the snapshot's own fs
\* directory: <shared_disk_path>/<pod_hash>/<snapshot_hash>/fs when the
\* labels ask for shared storage and all required labels are there,
\* otherwise (the resolver failing included) <id>/fs under the configured
\* snapshots root, /s/l with short paths enabled and <root>/snapshots
\* without. It is the upperdir of the overlay Mounts(k) returns for an
\* Active snapshot with parents and the source of the bind it returns for a
\* snapshot without parents. With the feature disabled no such label is
\* added.
C30_UpperdirLabel ==
    LET Own(id, labels) ==
            IF /\ Label(labels, LabelUseSharedStorage) = "true"
               /\ RequiredKeys \subseteq DOMAIN labels
            THEN SharedPath(labels[LabelSharedDiskPath],
                            hashString(PodIdentifier(labels)),
                            hashString(id), "fs")
            ELSE LocalPath(IF cfg.shortBasePaths THEN ShortRoot ELSE CanonRoot,
                           IdName(id), "fs")
        Want(id, labels) ==
            IF ~ cfg.upperdirLabel THEN [x \in {} |-> NoPath]
            ELSE [x \in {upperdirKey} |-> Own(id, labels)]
        At(ml, key) == {i \in 1..Len(ml[1].Options) : ml[1].Options[i].k = key}
        SameAsMounts(k) ==
            LET ml == MountsResult(k)
                label == StatInfo(cfg, meta, k).PathLabels[upperdirKey]
            IN /\ Len(GetSnapshot(meta, k).ParentIDs) = 0
                    => ml[1].Type = "bind" /\ ml[1].Source = label
               /\ (Len(GetSnapshot(meta, k).ParentIDs) > 0 /\ meta[k].kind = "Active")
                    => /\ At(ml, "upperdir") # {}
                       /\ \A i \in At(ml, "upperdir") :
                            ml[1].Options[i].v = <<label>>
    IN \A k \in Keys :
         meta[k].id # 0
           => /\ StatInfo(cfg, meta, k).PathLabels = Want(meta[k].id, meta[k].labels)
              /\ \A i \in WalkInfos(cfg, meta) :
                   i.Name = k => i.PathLabels = Want(meta[k].id, meta[k].labels)
              /\ \A l \in LabelVariants :
                   UpdateInfo(cfg, meta, k, l).PathLabels = Want(meta[k].id, l)
              /\ (cfg.upperdirLabel /\ MountsErr(meta, k) = "") => SameAsMounts(k)

\* with short paths and the upperdir label enabled, a View of "a" whose
\* shared-storage labels lack the pod name has been made under /s/l; the
\* resolver fails for it and Stat labels it with its directory /s/l/<id>/fs
C30_Witness ==
    /\ cfg.upperdirLabel /\ cfg.shortBasePaths
    /\ pc[1].op = "create" /\ pc[1].st = "done" /\ pc[1].err = ""
    /\ pc[1].key = "a"
    /\ meta["a"].kind = "View"
    /\ meta["a"].labels = MissingLabel(LabelK8sPodName)
    /\ determineUpperPath(cfg, meta["a"].id, meta["a"].labels).err # ""
    /\ StatInfo(cfg, meta, "a").PathLabels[upperdirKey]
         = LocalPath(ShortRoot, IdName(meta["a"].id), "fs")
    /\ StatInfo(cfg, meta, "a").PathLabels[upperdirKey] \in fs
    /\ StatInfo(cfg, meta, "a") \in WalkInfos(cfg, meta)

\* C31: in Remove no directory is deleted before the metadata removal has
\* committed nor while its transaction is open: the pre-read and the
\* transaction leave the disk as it is, the deletions are made in a later
\* step that is reached only through a removal that took the key out of the
\* store, and by then the transaction is over. When the metadata removal
\* fails (the key is unknown, or the snapshot has a child) Remove returns an
\* error, deletes nothing and leaves the store as it was.
C31_RemoveOrder ==
    [][\A p \in Procs :
         LET Fails == \/ meta[pc[p].key].id = 0
                      \/ \E c \in Keys : meta[c].id # 0 /\ meta[c].parent = pc[p].key
         IN /\ (pc[p].op = "idle" /\ pc'[p].op = "remove")
                 => fs' = fs /\ meta' = meta /\ pc'[p].st = "meta"
            /\ (pc[p].op = "remove" /\ pc[p].st = "meta" /\ pc'[p].st # "meta")
                 => /\ fs' = fs
                    /\ wlock = 0 /\ wlock' = 0
                    /\ IF Fails
                       THEN /\ pc'[p].st = "done" /\ pc'[p].err # ""
                            /\ meta' = meta
                       ELSE /\ pc'[p].st = "delete" /\ pc'[p].err = ""
                            /\ meta'[pc[p].key] = NoSnap
                            /\ \A k \in Keys \ {pc[p].key} : meta'[k] = meta[k]
            /\ (pc[p].op = "remove" /\ pc[p].st = "delete" /\ pc'[p].st # "delete")
                 => /\ pc[p].err = ""
                    /\ wlock # p
                    /\ meta' = meta
                    /\ pc'[p].st = "done"
            /\ (pc[p].op = "remove" /\ pc[p].st = "done" /\ pc[p].err # "")
                 => fs' = fs \/ pc'[p] = pc[p]
            /\ (pc[p].op = "remove" /\ pc'[p] # pc[p] /\ fs' # fs)
                 => pc[p].st = "delete" /\ fs' \subseteq fs]_vars

\* a synchronous Remove of "a" has deleted its home after the key left the
\* store, and before that a Remove of a key the store did not know had
\* returned an error with the disk and the store untouched
C31_Witness ==
    /\ ~ cfg.asyncRemove
    /\ pc[1].op = "remove" /\ pc[1].st = "done" /\ pc[1].err = ""
    /\ pc[1].key = "a" /\ pc[1].id # 0
    /\ getSnapshotPath(cfg, pc[1].id) \in pc[1].dirs
    /\ getSnapshotPath(cfg, pc[1].id) \notin fs
    /\ meta["a"] = NoSnap

\* a Remove of a key that is not in the store has returned its error while
\* directories of other snapshots are on disk
C31_WitnessFailed ==
    /\ pc[1].op = "remove" /\ pc[1].st = "done" /\ pc[1].err # ""
    /\ meta[pc[1].key].id = 0
    /\ fs # {}

\* C32 as stated: each of Prepare, View, Remove and Cleanup opens at most
\* one metadata transaction per call (Commit is one step with one
\* transaction).
C32_Original == \A p \in Procs : Len(pc[p].tx) <= 1

\* C32 as the code has it: each of Prepare, View, Remove and Cleanup opens
\* at most one read-write transaction per call, and nothing else but for
\* Remove, which opens one read-only transaction, its pre-read, before its
\* read-write one; a call opens no transaction while it holds another.
C32_OneWriteTransaction ==
    /\ \A p \in Procs :
         /\ Cardinality({i \in 1..Len(pc[p].tx) : pc[p].tx[i] = "w"}) <= 1
         /\ pc[p].op \in {"create", "cleanup"} => pc[p].tx = <<"w">>
         /\ pc[p].op = "remove"
              => /\ pc[p].st = "meta" => pc[p].tx = <<"r">>
                 /\ pc[p].st # "meta" => pc[p].tx = <<"r", "w">>
         /\ pc[p].op = "idle" => pc[p].tx = <<>>
         /\ wlock = p => pc[p].op = "create" /\ pc[p].tx = <<"w">>
    /\ wlock # 0 => pc[wlock].op = "create"

\* a Remove of "a" has finished: it opened its pre-read and then its
\* read-write transaction
C32_Witness ==
    /\ pc[1].op = "remove" /\ pc[1].st = "done" /\ pc[1].err = ""
    /\ pc[1].key = "a"
    /\ pc[1].tx = <<"r", "w">>
    /\ meta["a"] = NoSnap

\* C33: a record that is in the path-mapping index stays there through
\* every step of Prepare, View, Mounts, Commit, Remove and Cleanup.
C33_RecordsKept ==
    [][\A k \in DOMAIN globalMappings : k \in DOMAIN globalMappings']_vars

\* ------------------------------------------ the lock of the path mappings
MaxLockId == 3

\* the shared base of snapshot id of the pod of SharedLabels(ExternalDisk)
LockBase(id) == getSharedPathBase(SharedLabels(ExternalDisk), id)

\* threads that hold globalMappings.mu for reading, and for writing
RLockHolders ==
    {q \in Procs : \/ pc[q].op = "lookup" /\ pc[q].st \in {"rlocked", "write"}
                   \/ pc[q].op = "getall" /\ pc[q].st = "copy"}

LockHolders == {q \in Procs : pc[q].op = "register" /\ pc[q].st = "locked"}

\* RegisterPathMapping: globalMappings.mu.Lock()
RegisterLock(p, id) ==
    /\ pc[p].op = "idle"
    /\ id \in 1..env.idCap
    /\ RLockHolders = {} /\ LockHolders = {}
    /\ pc' = [pc EXCEPT ![p] =
                [Idle EXCEPT !.op = "register", !.st = "locked", !.id = id,
                             !.base = LockBase(id)]]
    /\ UNCHANGED <<cfg, meta, nextId, wlock, fs, globalMappings, mappingFiles,
                   prepared, markerFailed, env>>

\* RegisterPathMapping: the upsert, savePathMappings and the deferred Unlock
RegisterSave(p) ==
    /\ pc[p].op = "register" /\ pc[p].st = "locked"
    /\ LET l == SharedLabels(ExternalDisk)
           ms == RegisterPathMapping(globalMappings, mappingFiles, fs,
                     pc[p].base.disk, pc[p].base.pod, pc[p].base.name[2],
                     Label(l, LabelK8sNamespace), Label(l, LabelK8sPodName),
                     Label(l, LabelK8sContainerName), pc[p].id)
       IN /\ globalMappings' = ms.maps
          /\ mappingFiles' = ms.files
    /\ pc' = [pc EXCEPT ![p].st = "done"]
    /\ UNCHANGED <<cfg, meta, nextId, wlock, fs, prepared, markerFailed, env>>

\* LookupPathMapping: globalMappings.mu.RLock() and the map read
LookupRLock(p, id) ==
    /\ pc[p].op = "idle"
    /\ id \in 1..env.idCap
    /\ LockHolders = {}
    /\ pc' = [pc EXCEPT ![p] =
                [Idle EXCEPT !.op = "lookup", !.st = "rlocked", !.id = id,
                             !.base = LockBase(id)]]
    /\ UNCHANGED <<cfg, meta, nextId, wlock, fs, globalMappings, mappingFiles,
                   prepared, markerFailed, env>>

\* LookupPathMapping: when the record is there, the thread starts the
\* assignment mapping.LastAccessed = time.Now(); otherwise it returns
LookupFound(p) ==
    /\ pc[p].op = "lookup" /\ pc[p].st = "rlocked"
    /\ pc' = [pc EXCEPT ![p].st =
                IF LookupPathMapping(globalMappings, pc[p].base.pod,
                                     pc[p].base.name[2]).ok
                THEN "write" ELSE "done"]
    /\ UNCHANGED <<cfg, meta, nextId, wlock, fs, globalMappings, mappingFiles,
                   prepared, markerFailed, env>>

\* LookupPathMapping: the assignment is over, the deferred RUnlock runs
LookupRUnlock(p) ==
    /\ pc[p].op = "lookup" /\ pc[p].st = "write"
    /\ pc' = [pc EXCEPT ![p].st = "done"]
    /\ UNCHANGED <<cfg, meta, nextId, wlock, fs, globalMappings, mappingFiles,
                   prepared, markerFailed, env>>

\* GetAllMappings: globalMappings.mu.RLock(), then the copy of every record
GetAllRLock(p) ==
    /\ pc[p].op = "idle"
    /\ LockHolders = {}
    /\ pc' = [pc EXCEPT ![p] = [Idle EXCEPT !.op = "getall", !.st = "copy"]]
    /\ UNCHANGED <<cfg, meta, nextId, wlock, fs, globalMappings, mappingFiles,
                   prepared, markerFailed, env>>

\* GetAllMappings: the copy is made, the deferred RUnlock runs
GetAllCopy(p) ==
    /\ pc[p].op = "getall" /\ pc[p].st = "copy"
    /\ pc' = [pc EXCEPT ![p].st = "done"]
    /\ UNCHANGED <<cfg, meta, nextId, wlock, fs, globalMappings, mappingFiles,
                   prepared, markerFailed, env>>

\* the shared bases of the snapshots 1..MaxLockId are on the disk
InitLock ==
    InitWith({Cfg(FALSE, FALSE, FALSE)},
             {{LockBase(id) : id \in ids} : ids \in SUBSET (1..MaxLockId)},
             [faults |-> {}, idCap |-> MaxLockId])

NextLock ==
    \/ \E p \in Procs, id \in 1..MaxLockId : RegisterLock(p, id)
    \/ \E p \in Procs : RegisterSave(p)
    \/ \E p \in Procs, id \in 1..MaxLockId : LookupRLock(p, id)
    \/ \E p \in Procs : LookupFound(p)
    \/ \E p \in Procs : LookupRUnlock(p)
    \/ \E p \in Procs : GetAllRLock(p)
    \/ \E p \in Procs : GetAllCopy(p)
    \/ \E p \in Procs : Return(p)

SpecLock == InitLock /\ [][NextLock]_vars

\* C34: every write of a record of the path-mapping index (insert, field
\* update, last_accessed included, delete) and every save is made by a thread
\* that holds the lock exclusively: while a thread writes, no other thread
\* holds the lock, writes the same record or reads it.
C34_ExclusiveWrites ==
    LET Writing(p) == \/ pc[p].op = "register" /\ pc[p].st = "locked"
                      \/ pc[p].op = "lookup" /\ pc[p].st = "write"
        Reading(p, path) == \/ pc[p].op = "getall" /\ pc[p].st = "copy"
                            \/ /\ pc[p].op = "lookup" /\ pc[p].st = "rlocked"
                               /\ pc[p].base = path
    IN \A p \in Procs :
         Writing(p)
           => /\ LockHolders = {p}
              /\ RLockHolders = {}
              /\ \A q \in Procs \ {p} :
                   ~ (Writing(q) /\ pc[q].base = pc[p].base)
                     /\ ~ Reading(q, pc[p].base)

C36_MountPathsExist ==
    [][\A p \in Procs :
         (/\ pc[p].op = "create" /\ pc[p].st # "done"
          /\ pc'[p].op = "create" /\ pc'[p].st = "done" /\ pc'[p].err = "")
           => \A i \in 1..Len(pc'[p].ret) :
                LET m == pc'[p].ret[i]
                IN /\ m.Type = "bind" => m.Source \in fs'
                   /\ \A j \in 1..Len(m.Options) :
                        m.Options[j].k \in {"upperdir", "workdir", "lowerdir"}
                          => \A n \in 1..Len(m.Options[j].v) :
                               m.Options[j].v[n] \in fs']_vars

\* C37: the upper directory the resolver gives for a snapshot id does not
\* change while the id is in the store: no step of Prepare, View, Mounts,
\* Update, Commit or Remove makes the resolver return another directory for
\* an id that is in the store before and after the step.
C37_UpperPathStable ==
    [][\A k1, k2 \in Keys :
         (meta[k1].id # 0 /\ meta'[k2].id = meta[k1].id)
           => determineUpperPath(cfg', meta'[k2].id, meta'[k2].labels)
                = determineUpperPath(cfg, meta[k1].id, meta[k1].labels)]_vars

\* C38: when the write transaction of Remove takes a snapshot out of the
\* store, the id and the labels Remove read in its pre-read are the id and
\* the labels of that snapshot.
C38_PreReadCurrent ==
    [][\A p \in Procs :
         (/\ pc[p].op = "remove" /\ pc[p].st = "meta"
          /\ pc'[p].st = "delete")
           => /\ pc'[p].id = meta[pc[p].key].id
              /\ pc[p].labels = meta[pc[p].key].labels
              /\ pc[p].shared
                   = (/\ isSharedSnapshot(meta[pc[p].key].labels)
                      /\ getSharedPathBaseErr(meta[pc[p].key].labels,
                                              meta[pc[p].key].id) = "")]_vars

\* C39: a step that writes the .path-mappings.json of one shared disk leaves
\* in the index every record of a snapshot of the store that lives on
\* another shared disk, and does not write that record into the file.
C39_OtherBaseUntouched ==
    [][\A d \in SharedDisks, k \in DOMAIN globalMappings, s \in Keys :
         (/\ mappingFiles'[d] # mappingFiles[d]
          /\ meta[s].id # 0 /\ meta[s].id = globalMappings[k].SnapshotID
          /\ isSharedSnapshot(meta[s].labels)
          /\ Label(meta[s].labels, LabelSharedDiskPath) # d)
           => /\ k \in DOMAIN globalMappings'
              /\ globalMappings'[k] = globalMappings[k]
              /\ \A i \in 1..Len(mappingFiles'[d].entries) :
                   mappingFiles'[d].entries[i] # globalMappings[k]]_vars

====
